---------------------------- MODULE Spec2Model ----------------------------
(***************************************************************************)
(* GridPath: the linear-retirement capacity type (gen_ret_lin), the        *)
(* dynamic-component registry it contributes to, the scenario              *)
(* characteristics read from the database, join_sets and the upward        *)
(* load-following reserve module, the files gen_ret_lin writes and the     *)
(* subproblems of a scenario.                                              *)
(*                                                                         *)
(* Spec: one behaviour is one model build of one subproblem/stage:         *)
(*   contribution phase  -> assembly -> load data -> create instance       *)
(*   -> solve.                                                             *)
(* SpecResolution: one scenario_id resolved against one database.          *)
(* SpecJoining: one call of join_sets.                                     *)
(* SpecReserves: one reserve module through one build.                     *)
(* SpecExport: exports of one solved model to its results file.            *)
(* SpecWriting: calls of the gen_ret_lin input writer on one directory.    *)
(* SpecEnumeration: the subproblems and stages of one scenario.            *)
(* SpecUniqueness: one call of check_list_items_are_unique.                *)
(* The variables of the parts a specification leaves out keep their        *)
(* initial values.                                                         *)
(* Megawatts and costs are integers; the solver's continuous variables are *)
(* sampled on RetireMWGrid and ProvideGrid.                                *)
(***************************************************************************)
EXTENDS Integers, Sequences, FiniteSets, TLC

\* ------------------------------------------------------------------ bounds
NumPeriods == 3
MaxRows == 3
MaxEnabled == 2
MaxPasses == 2
MaxNames == 2
MaxExportRows == 2
MaxExports == 2
MaxWrites == 2
MaxCapacityRows == 2
MaxItems == 3

Projects == {"CoalPlant1", "GasPlant2"}
CapacityTypes == {"gen_ret_lin", "gen_spec"}
CapValues == {100, 500}
CostValues == {0, 50}
\* Sample points of GenRetLin_Retire_MW (a Var with no domain restriction:
\* the grid reaches below 0 and above every capacity).
RetireMWGrid == {-100, 0, 100, 300, 400, 500, 600}

PERIODS == {2020 + 2 * i : i \in 0..(NumPeriods - 1)}

VARIABLES
    projects_tab,          \* inputs/projects.tab: project -> capacity_type
    period_params_tab,     \* inputs/existing_generation_period_params.tab
    pc,                    \* position of the build
    next_module,           \* index into ModuleLoadOrder
    phase,                 \* registry phase: "contribution" | "assembly"
    capacity_type_operational_period_sets,  \* registry: shared list of set names
    headroom_variables,    \* registry: project -> list of variable names
    fatal,                 \* a fatal programming error ended the build
    declared,              \* gen_ret_lin components are declared on m
    GEN_RET_LIN_OPR_PRDS,
    gen_ret_lin_capacity_mw,
    gen_ret_lin_fixed_cost_per_mw_yr,
    var_bounds,            \* bounds of GenRetLin_Retire_MW, per index
    Retire_Forever_Constraint, \* generated constraints: Capacity[lhs] <= Capacity[rhs]
    GenRetLin_Retire_MW,   \* the solver's assignment
    Capacity_MW,           \* capacity_rule at the solution
    Capacity_Cost,         \* capacity_cost_rule at the solution
    scenarios,             \* database: the scenarios table, by scenario_id
    inputs_project_portfolios, \* database: rows of inputs_project_portfolios
    scenario_id,           \* the scenario asked for
    resolve_pc,            \* position of the resolution
    pass,                  \* how many times the scenario is being resolved
    optional_features,     \* the OptionalFeatures objects constructed: none or one
    feature_list,          \* determine_feature_list's return values: none or one
    subscenarios,          \* the SubScenarios objects constructed: none or one
    required_modules,      \* get_required_capacity_type_modules' return values
    raised,                \* the exception that ended the resolution
    mod_sets,              \* join_sets: the sets of the model, by name
    set_list,              \* join_sets: the names to join
    joined,                \* join_sets' return values: none or one
    reserve_product,       \* the reserve module at work
    reserve_tab,           \* projects.tab: project -> the module's ba column
    headroom,              \* project -> derated available headroom, MW
    requirement,           \* balancing area -> requirement, MW
    reserve_pc,            \* position of the reserve module's build
    reserve_model,         \* the model's components, by name
    balance,               \* the assembled balance constraints
    reserve_solution,      \* the solver's assignment
    reserve_results,       \* the rows exported
    technology,            \* the model's param: project -> technology
    load_zone,             \* the model's param: project -> load zone
    opr_prds_order,        \* the order in which GEN_RET_LIN_OPR_PRDS iterates
    results_file,          \* results/capacity_gen_ret_lin.csv: none or one
    export_calls,          \* calls of export_module_specific_results so far
    inputs_temporal_periods,           \* database: rows of the table
    inputs_project_existing_capacity,  \* database: rows of the table
    inputs_project_existing_fixed_cost, \* database: rows of the table
    tab_file,              \* existing_generation_period_params.tab: none or one
    write_calls,           \* calls of write_module_specific_model_inputs so far
    inputs_temporal_subproblems,        \* database: rows of the table
    inputs_temporal_subproblems_stages, \* database: rows of the table
    inputs_temporal_timepoints,         \* database: rows of the table
    subproblems_pc,        \* position of the enumeration
    SUBPROBLEMS,           \* SubProblems.SUBPROBLEMS: none or one list
    SUBPROBLEM_STAGE_DICT, \* SubProblems.SUBPROBLEM_STAGE_DICT
    checked_list,          \* the list given to check_list_items_are_unique
    check_outcome          \* how the call ended: none or one

registry == <<phase, capacity_type_operational_period_sets, headroom_variables>>
data_portal == <<GEN_RET_LIN_OPR_PRDS, gen_ret_lin_capacity_mw,
                 gen_ret_lin_fixed_cost_per_mw_yr>>
instance == <<var_bounds, Retire_Forever_Constraint>>
solution == <<GenRetLin_Retire_MW, Capacity_MW, Capacity_Cost>>
build == <<projects_tab, period_params_tab, pc, next_module, registry, fatal,
           declared, data_portal, instance, solution>>
database == <<scenarios, inputs_project_portfolios>>
resolution == <<scenario_id, resolve_pc, pass, optional_features, feature_list,
                subscenarios, required_modules, raised>>
joining == <<mod_sets, set_list, joined>>
reserve_inputs == <<reserve_product, reserve_tab, headroom, requirement>>
reserves == <<reserve_inputs, reserve_pc, reserve_model, balance,
              reserve_solution, reserve_results>>
\* The build, the registry's headroom_variables left out.
build_but_headroom ==
    <<projects_tab, period_params_tab, pc, next_module, phase,
      capacity_type_operational_period_sets, fatal, declared, data_portal,
      instance, solution>>
exporting == <<technology, load_zone, opr_prds_order, results_file,
               export_calls>>
input_tables == <<inputs_temporal_periods, inputs_project_existing_capacity,
                  inputs_project_existing_fixed_cost>>
writing == <<input_tables, tab_file, write_calls>>
temporal_tables == <<inputs_temporal_subproblems,
                     inputs_temporal_subproblems_stages,
                     inputs_temporal_timepoints>>
enumeration == <<temporal_tables, subproblems_pc, SUBPROBLEMS,
                 SUBPROBLEM_STAGE_DICT>>
uniqueness == <<checked_list, check_outcome>>
files == <<exporting, writing, enumeration, uniqueness>>
outside_build == <<database, resolution, joining, reserves, files>>
outside_resolution == <<build, joining, reserves, files>>
outside_joining == <<build, database, resolution, reserves, files>>
outside_reserves == <<build_but_headroom, database, resolution, joining, files>>
outside_exporting == <<build, database, resolution, joining, reserves, writing,
                       enumeration, uniqueness>>
outside_writing == <<build, scenarios, resolution, joining, reserves, exporting,
                     enumeration, uniqueness>>
outside_enumeration == <<build, joining, reserves, exporting, writing,
                         uniqueness>>
outside_uniqueness == <<build, database, resolution, joining, reserves,
                        exporting, writing, enumeration>>
vars == <<build, database, resolution, joining, reserves, files>>

EmptyMap == [k \in {} |-> 0]

Min(S) == CHOOSE x \in S : \A y \in S : x <= y
Max(S) == CHOOSE x \in S : \A y \in S : x >= y

\* ------------------------------------------------------- temporal module
first_period == Min(PERIODS)

previous_period(p) == Max({q \in PERIODS : q < p})

\* ------------------------------------------------------------ registry
\* Variant: a registry that never closes.
RegistryAccepts_always(ph) == TRUE

\* The registry takes contributions in the contribution phase only.
RegistryAccepts(ph) == ph = "contribution"

\* Variant: the name is inserted at the head of the list.
append_opr_prds_set_name_at_head(sets) == <<"GEN_RET_LIN_OPR_PRDS">> \o sets

\* gen_ret_lin's contribution to the shared list of set names.
append_opr_prds_set_name(sets) == Append(sets, "GEN_RET_LIN_OPR_PRDS")

ModuleLoadOrder == <<"gen_spec", "gen_ret_lin">>

OprSetName(module) ==
    IF module = "gen_ret_lin" THEN "GEN_RET_LIN_OPR_PRDS" ELSE "GEN_SPEC_OPR_PRDS"

required_capacity_type_modules == {projects_tab[p] : p \in DOMAIN projects_tab}

\* ------------------------------------------------- gen_ret_lin: the rules
\* mod is the model: a record of its params and its variable's values.
GEN_RET_LIN(mod) == {k[1] : k \in mod.GEN_RET_LIN_OPR_PRDS}

OPR_PRDS_BY_GEN_RET_LIN(mod, prj) ==
    {k[2] : k \in {kk \in mod.GEN_RET_LIN_OPR_PRDS : kk[1] = prj}}

\* Variant: the project's last period is taken for its first.
gen_ret_lin_first_period_max(mod, g) == Max(OPR_PRDS_BY_GEN_RET_LIN(mod, g))

\* Variant: the scenario's first period is taken for the project's.
gen_ret_lin_first_period_scenario(mod, g) == first_period

gen_ret_lin_first_period(mod, g) == Min(OPR_PRDS_BY_GEN_RET_LIN(mod, g))

\* Variant: no upper bound (0, None).
retire_capacity_bounds_no_upper(mod, g, p) == <<0, Max(RetireMWGrid)>>

\* Variant: the upper bound is short of the capacity.
retire_capacity_bounds_below_capacity(mod, g, p) ==
    <<0, mod.gen_ret_lin_capacity_mw[<<g, p>>] - 100>>

retire_capacity_bounds(mod, g, p) == <<0, mod.gen_ret_lin_capacity_mw[<<g, p>>]>>

\* Variant: the retirement is added to the capacity.
gen_ret_lin_capacity_rule_plus(mod, g, p) ==
    mod.gen_ret_lin_capacity_mw[<<g, p>>] + mod.GenRetLin_Retire_MW[<<g, p>>]

gen_ret_lin_capacity_rule(mod, g, p) ==
    mod.gen_ret_lin_capacity_mw[<<g, p>>] - mod.GenRetLin_Retire_MW[<<g, p>>]

\* Variant: >= for <=.
retire_forever_rule_reversed(mod, g, p) ==
    IF p = first_period
    THEN {}
    ELSE IF p = gen_ret_lin_first_period(mod, g)
         THEN {}
         ELSE {[lhs |-> <<g, previous_period(p)>>, rhs |-> <<g, p>>]}

\* Variant: the generator's own first period is not skipped.
retire_forever_rule_no_generator_skip(mod, g, p) ==
    IF p = first_period
    THEN {}
    ELSE {[lhs |-> <<g, p>>, rhs |-> <<g, previous_period(p)>>]}

\* Variant: the right-hand side is indexed by p, not previous_period[p].
retire_forever_rule_same_period(mod, g, p) ==
    IF p = first_period
    THEN {}
    ELSE IF p = gen_ret_lin_first_period(mod, g)
         THEN {}
         ELSE {[lhs |-> <<g, p>>, rhs |-> <<g, p>>]}

\* The constraints the rule yields for index (g, p): none (Constraint.Skip)
\* or one, Capacity[lhs] <= Capacity[rhs].
retire_forever_rule(mod, g, p) ==
    IF p = first_period
    THEN {}
    ELSE IF p = gen_ret_lin_first_period(mod, g)
         THEN {}
         ELSE {[lhs |-> <<g, p>>, rhs |-> <<g, previous_period(p)>>]}

\* Variant: the pre-specified capacity, retirements forgotten.
capacity_rule_gross(mod, g, p) == mod.gen_ret_lin_capacity_mw[<<g, p>>]

capacity_rule(mod, g, p) == gen_ret_lin_capacity_rule(mod, g, p)

\* Variant: the fixed cost is charged on the pre-specified capacity.
capacity_cost_rule_gross(mod, g, p) ==
    mod.gen_ret_lin_capacity_mw[<<g, p>>]
        * mod.gen_ret_lin_fixed_cost_per_mw_yr[<<g, p>>]

capacity_cost_rule(mod, g, p) ==
    gen_ret_lin_capacity_rule(mod, g, p)
        * mod.gen_ret_lin_fixed_cost_per_mw_yr[<<g, p>>]

\* The model with the variable at assignment R.
ModelAt(R) ==
    [GEN_RET_LIN_OPR_PRDS |-> GEN_RET_LIN_OPR_PRDS,
     gen_ret_lin_capacity_mw |-> gen_ret_lin_capacity_mw,
     gen_ret_lin_fixed_cost_per_mw_yr |-> gen_ret_lin_fixed_cost_per_mw_yr,
     GenRetLin_Retire_MW |-> R]

\* ------------------------------------------------------------------ Init
\* No database at hand, nothing resolved.
NoResolution ==
    /\ scenarios = EmptyMap
    /\ inputs_project_portfolios = {}
    /\ scenario_id = 0
    /\ resolve_pc = "off"
    /\ pass = 0
    /\ optional_features = {}
    /\ feature_list = {}
    /\ subscenarios = {}
    /\ required_modules = {}
    /\ raised = "none"

\* The build is not running.
NoBuild ==
    /\ projects_tab = [p \in Projects |-> "gen_spec"]
    /\ period_params_tab = EmptyMap
    /\ pc = "off"
    /\ next_module = 1
    /\ phase = "contribution"
    /\ capacity_type_operational_period_sets = <<>>
    /\ headroom_variables = EmptyMap
    /\ fatal = FALSE
    /\ declared = FALSE
    /\ GEN_RET_LIN_OPR_PRDS = {}
    /\ gen_ret_lin_capacity_mw = EmptyMap
    /\ gen_ret_lin_fixed_cost_per_mw_yr = EmptyMap
    /\ var_bounds = EmptyMap
    /\ Retire_Forever_Constraint = {}
    /\ GenRetLin_Retire_MW = EmptyMap
    /\ Capacity_MW = EmptyMap
    /\ Capacity_Cost = EmptyMap

\* join_sets is not being called.
NoJoining ==
    /\ mod_sets = EmptyMap
    /\ set_list = <<>>
    /\ joined = {}

\* No reserve module is at work.
NoReserves ==
    /\ reserve_product = "none"
    /\ reserve_tab = EmptyMap
    /\ headroom = EmptyMap
    /\ requirement = EmptyMap
    /\ reserve_pc = "off"
    /\ reserve_model = EmptyMap
    /\ balance = EmptyMap
    /\ reserve_solution = EmptyMap
    /\ reserve_results = {}

\* Nothing has been resolved.
NothingResolved ==
    /\ resolve_pc = "off"
    /\ pass = 0
    /\ optional_features = {}
    /\ feature_list = {}
    /\ subscenarios = {}
    /\ required_modules = {}
    /\ raised = "none"

\* No scenario is being resolved.
NotResolving == scenario_id = 0 /\ NothingResolved

\* Nothing is being exported.
NoExporting ==
    /\ technology = EmptyMap
    /\ load_zone = EmptyMap
    /\ opr_prds_order = <<>>
    /\ results_file = {}
    /\ export_calls = 0

\* No input file is being written.
NoWriting ==
    /\ inputs_temporal_periods = {}
    /\ inputs_project_existing_capacity = {}
    /\ inputs_project_existing_fixed_cost = {}
    /\ tab_file = {}
    /\ write_calls = 0

\* No subproblem is being enumerated.
NoEnumeration ==
    /\ inputs_temporal_subproblems = {}
    /\ inputs_temporal_subproblems_stages = {}
    /\ inputs_temporal_timepoints = {}
    /\ subproblems_pc = "off"
    /\ SUBPROBLEMS = {}
    /\ SUBPROBLEM_STAGE_DICT = EmptyMap

\* check_list_items_are_unique is not being called.
NoUniqueness ==
    /\ checked_list = <<>>
    /\ check_outcome = {}

NoFiles == NoExporting /\ NoWriting /\ NoEnumeration /\ NoUniqueness

Init ==
    /\ NoFiles
    /\ NoResolution
    /\ NoJoining
    /\ NoReserves
    /\ projects_tab \in [Projects -> CapacityTypes]
    /\ period_params_tab = EmptyMap
    /\ pc = "contribution"
    /\ next_module = 1
    /\ phase = "contribution"
    /\ capacity_type_operational_period_sets = <<>>
    /\ headroom_variables = EmptyMap
    /\ fatal = FALSE
    /\ declared = FALSE
    /\ GEN_RET_LIN_OPR_PRDS = {}
    /\ gen_ret_lin_capacity_mw = EmptyMap
    /\ gen_ret_lin_fixed_cost_per_mw_yr = EmptyMap
    /\ var_bounds = EmptyMap
    /\ Retire_Forever_Constraint = {}
    /\ GenRetLin_Retire_MW = EmptyMap
    /\ Capacity_MW = EmptyMap
    /\ Capacity_Cost = EmptyMap

\* ------------------------------------------------------ the contribution
\* One call of add_module_specific_components(m, d): the components are
\* declared on m, then the set's name is appended to the registry's list. A
\* registry that no longer accepts contributions fails the call.
AddModuleSpecificComponentsCall ==
    /\ declared' = TRUE
    /\ IF RegistryAccepts(phase)
       THEN /\ capacity_type_operational_period_sets' =
                   append_opr_prds_set_name(capacity_type_operational_period_sets)
            /\ UNCHANGED fatal
       ELSE /\ fatal' = TRUE
            /\ UNCHANGED capacity_type_operational_period_sets
    /\ UNCHANGED <<phase, headroom_variables>>

\* Variant: the order of the modules is taken from the projects table.
ModuleAtCursor_by_data ==
    IF projects_tab["CoalPlant1"] = "gen_ret_lin"
    THEN ModuleLoadOrder[Len(ModuleLoadOrder) + 1 - next_module]
    ELSE ModuleLoadOrder[next_module]

ModuleAtCursor == ModuleLoadOrder[next_module]

add_module_specific_components ==
    /\ pc = "contribution"
    /\ next_module <= Len(ModuleLoadOrder)
    /\ ModuleAtCursor = "gen_ret_lin"
    /\ ModuleAtCursor \in required_capacity_type_modules
    /\ AddModuleSpecificComponentsCall
    /\ next_module' = next_module + 1
    /\ UNCHANGED outside_build
    /\ UNCHANGED <<projects_tab, period_params_tab, pc, data_portal, instance,
                   solution>>

\* Another active capacity type contributes its own set's name.
OtherModuleContributes ==
    /\ pc = "contribution"
    /\ next_module <= Len(ModuleLoadOrder)
    /\ ModuleAtCursor # "gen_ret_lin"
    /\ ModuleAtCursor \in required_capacity_type_modules
    /\ RegistryAccepts(phase)
    /\ capacity_type_operational_period_sets' =
           Append(capacity_type_operational_period_sets, OprSetName(ModuleAtCursor))
    /\ next_module' = next_module + 1
    /\ UNCHANGED outside_build
    /\ UNCHANGED <<projects_tab, period_params_tab, pc, phase, headroom_variables,
                   fatal, declared, data_portal, instance, solution>>

\* A capacity type no project of the portfolio uses is not loaded.
SkipInactiveModule ==
    /\ pc = "contribution"
    /\ next_module <= Len(ModuleLoadOrder)
    /\ ModuleAtCursor \notin required_capacity_type_modules
    /\ next_module' = next_module + 1
    /\ UNCHANGED outside_build
    /\ UNCHANGED <<projects_tab, period_params_tab, pc, registry, fatal, declared,
                   data_portal, instance, solution>>

\* Variant: the Assembler does not wait for the modules.
Assemble_early ==
    /\ pc = "contribution"
    /\ phase' = "assembly"
    /\ pc' = "assembled"
    /\ UNCHANGED outside_build
    /\ UNCHANGED <<projects_tab, period_params_tab, next_module,
                   capacity_type_operational_period_sets, headroom_variables,
                   fatal, declared, data_portal, instance, solution>>

\* The Assembler takes over: the registry becomes read-only.
Assemble ==
    /\ pc = "contribution"
    /\ next_module > Len(ModuleLoadOrder)
    /\ phase' = "assembly"
    /\ pc' = "assembled"
    /\ UNCHANGED outside_build
    /\ UNCHANGED <<projects_tab, period_params_tab, next_module,
                   capacity_type_operational_period_sets, headroom_variables,
                   fatal, declared, data_portal, instance, solution>>

\* A programming error: the module is asked to contribute while the registry
\* of this build is still alive but already assembled.
ContributeAfterAssembly ==
    /\ pc \in {"assembled", "loaded"}
    /\ ~fatal
    /\ AddModuleSpecificComponentsCall
    /\ pc' = IF fatal' THEN "aborted" ELSE pc
    /\ UNCHANGED outside_build
    /\ UNCHANGED <<projects_tab, period_params_tab, next_module, data_portal,
                   instance, solution>>

\* ------------------------------------------------------------- load data
\* Variant: the capacity_type column is not looked at.
determine_gen_ret_lin_projects_all(ptab) == DOMAIN ptab

determine_gen_ret_lin_projects(ptab) ==
    {prj \in DOMAIN ptab : ptab[prj] = "gen_ret_lin"}

\* Variant: every row of the table is kept.
generator_period_list_all(ptab, ppt) == DOMAIN ppt

generator_period_list(ptab, ppt) ==
    {row \in DOMAIN ppt : row[1] \in determine_gen_ret_lin_projects(ptab)}

\* float(row[2]), float(row[3]): the table's numbers, as numbers.
gen_ret_lin_capacity_mw_dict(ptab, ppt) ==
    [row \in generator_period_list(ptab, ppt) |-> ppt[row].existing_capacity_mw]

gen_ret_lin_fixed_cost_per_mw_yr_dict(ptab, ppt) ==
    [row \in generator_period_list(ptab, ppt) |-> ppt[row].fixed_cost_per_mw_yr]

KeySets == {K \in SUBSET (Projects \X PERIODS) : Cardinality(K) <= MaxRows}

\* The tables read: at most MaxRows rows, one per (project, period), a
\* project's fixed cost the same in all its periods.
PeriodParamsTabs ==
    UNION {{[k \in K |-> [existing_capacity_mw |-> caps[k],
                          fixed_cost_per_mw_yr |-> cost[k[1]]]] :
                caps \in [K -> CapValues],
                cost \in [{k[1] : k \in K} -> CostValues]} : K \in KeySets}

load_module_specific_data ==
    /\ pc = "assembled"
    /\ \E ppt \in PeriodParamsTabs :
          /\ period_params_tab' = ppt
          /\ GEN_RET_LIN_OPR_PRDS' = generator_period_list(projects_tab, ppt)
          /\ gen_ret_lin_capacity_mw' =
                 gen_ret_lin_capacity_mw_dict(projects_tab, ppt)
          /\ gen_ret_lin_fixed_cost_per_mw_yr' =
                 gen_ret_lin_fixed_cost_per_mw_yr_dict(projects_tab, ppt)
    /\ pc' = "loaded"
    /\ UNCHANGED outside_build
    /\ UNCHANGED <<projects_tab, next_module, registry, fatal, declared,
                   instance, solution>>

\* ------------------------------------------------------- create instance
GeneratedConstraints ==
    UNION {retire_forever_rule(ModelAt(EmptyMap), k[1], k[2]) :
               k \in GEN_RET_LIN_OPR_PRDS}

\* GenRetLin_Capacity_MW[g, previous_period[p]] is looked up while the rule
\* runs: an index outside GEN_RET_LIN_OPR_PRDS raises.
IndicesValid ==
    \A c \in GeneratedConstraints :
        c.lhs \in GEN_RET_LIN_OPR_PRDS /\ c.rhs \in GEN_RET_LIN_OPR_PRDS

CreateInstance ==
    /\ pc = "loaded"
    /\ IndicesValid
    /\ var_bounds' = [k \in GEN_RET_LIN_OPR_PRDS |->
                          retire_capacity_bounds(ModelAt(EmptyMap), k[1], k[2])]
    /\ Retire_Forever_Constraint' = GeneratedConstraints
    /\ pc' = "built"
    /\ UNCHANGED outside_build
    /\ UNCHANGED <<projects_tab, period_params_tab, next_module, registry, fatal,
                   declared, data_portal, solution>>

CreateInstanceFails ==
    /\ pc = "loaded"
    /\ ~IndicesValid
    /\ pc' = "failed"
    /\ UNCHANGED outside_build
    /\ UNCHANGED <<projects_tab, period_params_tab, next_module, registry, fatal,
                   declared, data_portal, instance, solution>>

\* ------------------------------------------------------------------ solve
WithinBounds(R) ==
    \A k \in DOMAIN var_bounds : var_bounds[k][1] <= R[k] /\ R[k] <= var_bounds[k][2]

ConstraintsHold(R) ==
    \A c \in Retire_Forever_Constraint :
        gen_ret_lin_capacity_rule(ModelAt(R), c.lhs[1], c.lhs[2])
            <= gen_ret_lin_capacity_rule(ModelAt(R), c.rhs[1], c.rhs[2])

Admissible(R) == WithinBounds(R) /\ ConstraintsHold(R)

\* The solver returns some admissible assignment; the expressions are then
\* evaluated at it.
Solve ==
    /\ pc = "built"
    /\ \E R \in [GEN_RET_LIN_OPR_PRDS -> RetireMWGrid] :
          /\ Admissible(R)
          /\ GenRetLin_Retire_MW' = R
          /\ Capacity_MW' = [k \in GEN_RET_LIN_OPR_PRDS |->
                                 capacity_rule(ModelAt(R), k[1], k[2])]
          /\ Capacity_Cost' = [k \in GEN_RET_LIN_OPR_PRDS |->
                                   capacity_cost_rule(ModelAt(R), k[1], k[2])]
    /\ pc' = "solved"
    /\ UNCHANGED outside_build
    /\ UNCHANGED <<projects_tab, period_params_tab, next_module, registry, fatal,
                   declared, data_portal, instance>>

\* ====================================================================
\* Scenario characteristics in the database (scenario_chars.py)
\* ====================================================================
\* The optional features, in the order __init__ reads them and
\* determine_feature_list tests them.
Features ==
    <<"fuels", "multi_stage", "transmission", "transmission_hurdle_rates",
      "simultaneous_flow_limits", "lf_reserves_up", "lf_reserves_down",
      "regulation_up", "regulation_down", "frequency_response",
      "spinning_reserves", "rps", "carbon_cap", "track_carbon_imports", "prm",
      "elcc_surface", "local_capacity">>

FeatureNames == {Features[i] : i \in DOMAIN Features}

\* The columns of scenarios that SubScenarios.__init__ reads.
SubscenarioColumns ==
    {"temporal_scenario_id", "load_zone_scenario_id",
     "lf_reserves_up_ba_scenario_id", "lf_reserves_down_ba_scenario_id",
     "regulation_up_ba_scenario_id", "regulation_down_ba_scenario_id",
     "frequency_response_ba_scenario_id", "spinning_reserves_ba_scenario_id",
     "rps_zone_scenario_id", "carbon_cap_zone_scenario_id",
     "prm_zone_scenario_id", "local_capacity_zone_scenario_id",
     "project_portfolio_scenario_id", "project_load_zone_scenario_id",
     "project_lf_reserves_up_ba_scenario_id",
     "project_lf_reserves_down_ba_scenario_id",
     "project_regulation_up_ba_scenario_id",
     "project_regulation_down_ba_scenario_id",
     "project_frequency_response_ba_scenario_id",
     "project_spinning_reserves_ba_scenario_id",
     "project_rps_zone_scenario_id", "project_carbon_cap_zone_scenario_id",
     "project_prm_zone_scenario_id", "project_elcc_chars_scenario_id",
     "project_local_capacity_zone_scenario_id",
     "project_local_capacity_chars_scenario_id",
     "project_existing_capacity_scenario_id",
     "project_existing_fixed_cost_scenario_id",
     "project_new_cost_scenario_id", "project_new_potential_scenario_id",
     "prm_energy_only_scenario_id", "project_operational_chars_scenario_id",
     "project_availability_scenario_id", "fuel_scenario_id",
     "fuel_price_scenario_id", "transmission_portfolio_scenario_id",
     "transmission_load_zone_scenario_id",
     "transmission_existing_capacity_scenario_id",
     "transmission_operational_chars_scenario_id",
     "transmission_hurdle_rate_scenario_id",
     "transmission_carbon_cap_zone_scenario_id",
     "transmission_simultaneous_flow_limit_scenario_id",
     "transmission_simultaneous_flow_limit_line_group_scenario_id",
     "load_scenario_id", "lf_reserves_up_scenario_id",
     "lf_reserves_down_scenario_id", "regulation_up_scenario_id",
     "regulation_down_scenario_id", "frequency_response_scenario_id",
     "spinning_reserves_scenario_id", "rps_target_scenario_id",
     "carbon_cap_target_scenario_id", "prm_requirement_scenario_id",
     "elcc_surface_scenario_id", "local_capacity_requirement_scenario_id",
     "tuning_scenario_id"}

ScenarioIds == {1, 2}
PortfolioIds == {1, 2}

\* mod_feature_subscenarios: rows (feature, subscenario_id), as stored.
mod_feature_subscenarios ==
    <<<<"transmission", "transmission_portfolio_scenario_id">>,
      <<"fuels", "fuel_scenario_id">>,
      <<"transmission", "transmission_load_zone_scenario_id">>>>

\* A row of scenarios: its of_<feature> columns and its subscenario columns.
ScenarioRow(flags, sid, portfolio) ==
    [of |-> flags,
     subscenario |-> [c \in SubscenarioColumns |->
                          IF c = "project_portfolio_scenario_id"
                          THEN portfolio ELSE 10 * sid]]

\* cursor.execute("SELECT <column> FROM scenarios WHERE scenario_id = <sid>")
\* .fetchone(): the row of one value, or None, written <<>>.
fetchone(table, group, column, sid) ==
    IF sid \in DOMAIN table THEN <<table[sid][group][column]>> ELSE <<>>

\* row[0] raises TypeError when row is None.
RaisesTypeError(row) == row = <<>>

Truthy(v) == v # 0

\* OptionalFeatures.__init__ runs to its end: no query came back empty.
OptionalFeaturesConstructed(table, sid) ==
    \A f \in FeatureNames : ~RaisesTypeError(fetchone(table, "of", f, sid))

\* The object: SCENARIO_ID and the OPTIONAL_FEATURE_<FEATURE> attributes.
OptionalFeatures(table, sid) ==
    [SCENARIO_ID |-> sid,
     OPTIONAL_FEATURE |-> [f \in FeatureNames |->
                               fetchone(table, "of", f, sid)[1]]]

\* Variant: every feature is listed, whatever its flag.
determine_feature_list_all(self) == Features

determine_feature_list(self) ==
    SelectSeq(Features, LAMBDA f : Truthy(self.OPTIONAL_FEATURE[f]))

RECURSIVE determine_subscenarios_by_feature(_)
determine_subscenarios_by_feature(feature_sc) ==
    IF feature_sc = <<>>
    THEN [f \in {} |-> <<>>]
    ELSE LET done == determine_subscenarios_by_feature(
                         SubSeq(feature_sc, 1, Len(feature_sc) - 1))
             f == feature_sc[Len(feature_sc)][1]
             sc == feature_sc[Len(feature_sc)][2]
         IN  IF f \in DOMAIN done
             THEN [done EXCEPT ![f] = Append(@, sc)]
             ELSE [g \in DOMAIN done \cup {f} |->
                      IF g = f THEN <<sc>> ELSE done[g]]

SubScenariosConstructed(table, sid) ==
    \A c \in SubscenarioColumns :
        ~RaisesTypeError(fetchone(table, "subscenario", c, sid))

\* The object: SCENARIO_ID, one <COLUMN> attribute per column read, and
\* subscenario_ids_by_feature.
SubScenarios(table, sid) ==
    [SCENARIO_ID |-> sid,
     ids |-> [c \in SubscenarioColumns |->
                  fetchone(table, "subscenario", c, sid)[1]],
     subscenario_ids_by_feature |->
         determine_subscenarios_by_feature(mod_feature_subscenarios)]

\* Variant: SELECT DISTINCT capacity_type with no WHERE clause.
select_distinct_capacity_type_unscoped(portfolios, project_portfolio_scenario_id) ==
    {r.capacity_type : r \in portfolios}

\* SELECT DISTINCT capacity_type FROM inputs_project_portfolios
\* WHERE project_portfolio_scenario_id = <id>: the values, each once.
select_distinct_capacity_type(portfolios, project_portfolio_scenario_id) ==
    {r.capacity_type :
        r \in {q \in portfolios :
                  q.project_portfolio_scenario_id = project_portfolio_scenario_id}}

\* The lists that hold the members of S once each: the order of the rows
\* of a SELECT without ORDER BY is the database's choice.
RowOrders(S) ==
    {q \in UNION {[1..n -> S] : n \in {Cardinality(S)}} :
        {q[i] : i \in DOMAIN q} = S}

\* ----------------------------------------------------- the configurations
FlagRows ==
    {[f \in FeatureNames |-> IF f \in E THEN 1 ELSE 0] :
        E \in {X \in SUBSET FeatureNames : Cardinality(X) <= MaxEnabled}}

NoFlags == [f \in FeatureNames |-> 0]

PortfolioTabs ==
    {{[project_portfolio_scenario_id |-> k[1], project |-> k[2],
       capacity_type |-> t[k]] : k \in K} :
        <<K, t>> \in UNION {{<<K2, t2>> : t2 \in [K2 -> CapacityTypes]} :
                                K2 \in SUBSET (PortfolioIds \X Projects)}}

SamplePortfolios ==
    {[project_portfolio_scenario_id |-> 1, project |-> "CoalPlant1",
      capacity_type |-> "gen_ret_lin"],
     [project_portfolio_scenario_id |-> 1, project |-> "GasPlant2",
      capacity_type |-> "gen_spec"],
     [project_portfolio_scenario_id |-> 2, project |-> "GasPlant2",
      capacity_type |-> "gen_spec"]}

\* A database and a scenario_id to resolve. The configurations are taken
\* along two axes: every row of flags over one portfolio table, and every
\* portfolio table and set of scenarios over one row of flags.
InitResolution ==
    /\ NoFiles
    /\ NoBuild
    /\ NoJoining
    /\ NoReserves
    /\ \E present \in SUBSET ScenarioIds, flags \in FlagRows,
          tab \in PortfolioTabs :
          \E pp \in [present -> PortfolioIds] :
              /\ \/ (present = {1} /\ tab = SamplePortfolios)
                 \/ flags = NoFlags
              /\ scenarios = [sid \in present |-> ScenarioRow(flags, sid, pp[sid])]
              /\ inputs_project_portfolios = tab
    /\ scenario_id \in ScenarioIds
    /\ resolve_pc = "OptionalFeatures"
    /\ pass = 1
    /\ optional_features = {}
    /\ feature_list = {}
    /\ subscenarios = {}
    /\ required_modules = {}
    /\ raised = "none"

\* --------------------------------------------------------- the resolution
\* The caller constructs OptionalFeatures, asks it for the feature list,
\* constructs SubScenarios and asks it for the required capacity types. An
\* exception ends the run.
\* Variant: reading the flags of a scenario clears them in the database.
OptionalFeatures_init_consuming ==
    /\ resolve_pc = "OptionalFeatures"
    /\ IF OptionalFeaturesConstructed(scenarios, scenario_id)
       THEN /\ optional_features' = {OptionalFeatures(scenarios, scenario_id)}
            /\ scenarios' = [scenarios EXCEPT ![scenario_id].of = NoFlags]
            /\ resolve_pc' = "determine_feature_list"
            /\ UNCHANGED raised
       ELSE /\ raised' = "TypeError"
            /\ resolve_pc' = "raised"
            /\ UNCHANGED <<optional_features, scenarios>>
    /\ UNCHANGED outside_resolution
    /\ UNCHANGED <<inputs_project_portfolios, scenario_id, pass,
                   feature_list, subscenarios, required_modules>>

OptionalFeatures_init ==
    /\ resolve_pc = "OptionalFeatures"
    /\ IF OptionalFeaturesConstructed(scenarios, scenario_id)
       THEN /\ optional_features' = {OptionalFeatures(scenarios, scenario_id)}
            /\ resolve_pc' = "determine_feature_list"
            /\ UNCHANGED raised
       ELSE /\ raised' = "TypeError"
            /\ resolve_pc' = "raised"
            /\ UNCHANGED optional_features
    /\ UNCHANGED outside_resolution
    /\ UNCHANGED <<database, scenario_id, pass, feature_list,
                   subscenarios, required_modules>>

determine_feature_list_call ==
    /\ resolve_pc = "determine_feature_list"
    /\ feature_list' = {determine_feature_list(self) : self \in optional_features}
    /\ resolve_pc' = "SubScenarios"
    /\ UNCHANGED outside_resolution
    /\ UNCHANGED <<database, scenario_id, pass, optional_features,
                   subscenarios, required_modules, raised>>

SubScenarios_init ==
    /\ resolve_pc = "SubScenarios"
    /\ IF SubScenariosConstructed(scenarios, scenario_id)
       THEN /\ subscenarios' = {SubScenarios(scenarios, scenario_id)}
            /\ resolve_pc' = "get_required_capacity_type_modules"
            /\ UNCHANGED raised
       ELSE /\ raised' = "TypeError"
            /\ resolve_pc' = "raised"
            /\ UNCHANGED subscenarios
    /\ UNCHANGED outside_resolution
    /\ UNCHANGED <<database, scenario_id, pass, optional_features,
                   feature_list, required_modules>>

get_required_capacity_type_modules ==
    /\ resolve_pc = "get_required_capacity_type_modules"
    /\ \E self \in subscenarios :
          LET row == fetchone(scenarios, "subscenario",
                              "project_portfolio_scenario_id", self.SCENARIO_ID)
          IN  IF RaisesTypeError(row)
              THEN /\ raised' = "TypeError"
                   /\ resolve_pc' = "raised"
                   /\ UNCHANGED required_modules
              ELSE /\ \E p \in RowOrders(select_distinct_capacity_type(
                                             inputs_project_portfolios, row[1])) :
                          required_modules' = {p}
                   /\ resolve_pc' = "resolved"
                   /\ UNCHANGED raised
    /\ UNCHANGED outside_resolution
    /\ UNCHANGED <<database, scenario_id, pass, optional_features,
                   feature_list, subscenarios>>

\* The same scenario is resolved once more.
ResolveAgain ==
    /\ resolve_pc = "resolved"
    /\ pass < MaxPasses
    /\ pass' = pass + 1
    /\ resolve_pc' = "OptionalFeatures"
    /\ UNCHANGED outside_resolution
    /\ UNCHANGED <<database, scenario_id, optional_features,
                   feature_list, subscenarios, required_modules, raised>>

NextResolution ==
    \/ OptionalFeatures_init
    \/ determine_feature_list_call
    \/ SubScenarios_init
    \/ get_required_capacity_type_modules
    \/ ResolveAgain

SpecResolution == InitResolution /\ [][NextResolution]_vars

\* ====================================================================
\* auxiliary.join_sets, as the Assembler uses it
\* ====================================================================
SetNames == {"set1", "set2"}
Elements == {1, 2, 3, 4}

\* Variant: only the first named set is taken.
join_sets_first_only(mod, names) ==
    IF Len(names) = 0
    THEN [type |-> "list", members |-> {}]
    ELSE [type |-> "set", members |-> mod[names[1]]]

\* What join_sets returns: the empty list for no name, the named set for one
\* name, a new set of all the members for several names.
join_sets(mod, names) ==
    IF Len(names) = 0
    THEN [type |-> "list", members |-> {}]
    ELSE IF Len(names) = 1
         THEN [type |-> "set", members |-> mod[names[1]]]
         ELSE [type |-> "set",
               members |-> UNION {mod[names[i]] : i \in DOMAIN names}]

InitJoining ==
    /\ NoFiles
    /\ NoBuild
    /\ NoResolution
    /\ NoReserves
    /\ mod_sets \in [SetNames -> SUBSET Elements]
    /\ set_list \in UNION {[1..n -> SetNames] : n \in 0..MaxNames}
    /\ joined = {}

join_sets_call ==
    /\ joined = {}
    /\ joined' = {join_sets(mod_sets, set_list)}
    /\ UNCHANGED outside_joining
    /\ UNCHANGED <<mod_sets, set_list>>

NextJoining == join_sets_call

SpecJoining == InitJoining /\ [][NextJoining]_vars

\* ====================================================================
\* Reserve provision: lf_reserves_up.py over the generic reserve module
\* ====================================================================
\* One behaviour of SpecReserves is the part of one build that one reserve
\* module takes: contribution, declaration, data, the balance constraints,
\* the solve and the export.
ReserveProjects == {"A", "B"}
\* The rows of projects.tab, in the order of the file.
ProjectOrder == <<"A", "B">>
BalancingAreas == {"Z", "Y"}
TIMEPOINTS == {1, 2}
HeadroomValues == {40, 50}
RequirementValues == {0, 80}
ProvideGrid == {0, 20, 40, 50}

\* lf_reserves_up.py: the module's constants.
LF_RESERVES_UP ==
    [MODULE_NAME |-> "lf_reserves_up",
     HEADROOM_OR_FOOTROOM_DICT_NAME |-> "headroom_variables",
     BA_COLUMN_NAME_IN_INPUT_FILE |-> "lf_reserves_up_ba",
     RESERVE_PROVISION_VARIABLE_NAME |-> "Provide_LF_Reserves_Up_MW",
     RESERVE_PROVISION_DERATE_PARAM_NAME |-> "lf_reserves_up_derate",
     RESERVE_BALANCING_AREA_PARAM_NAME |-> "lf_reserves_up_zone",
     RESERVE_PROJECTS_SET_NAME |-> "LF_RESERVES_UP_PROJECTS",
     RESERVE_BALANCING_AREAS_SET_NAME |-> "LF_RESERVES_UP_ZONES",
     RESERVE_PROJECT_OPERATIONAL_TIMEPOINTS_SET_NAME |->
         "LF_RESERVES_UP_PROJECT_OPERATIONAL_TIMEPOINTS"]

\* The same template for the product regulation_up.
REGULATION_UP ==
    [MODULE_NAME |-> "regulation_up",
     HEADROOM_OR_FOOTROOM_DICT_NAME |-> "headroom_variables",
     BA_COLUMN_NAME_IN_INPUT_FILE |-> "regulation_up_ba",
     RESERVE_PROVISION_VARIABLE_NAME |-> "Provide_Regulation_Up_MW",
     RESERVE_PROVISION_DERATE_PARAM_NAME |-> "regulation_up_derate",
     RESERVE_BALANCING_AREA_PARAM_NAME |-> "regulation_up_zone",
     RESERVE_PROJECTS_SET_NAME |-> "REGULATION_UP_PROJECTS",
     RESERVE_BALANCING_AREAS_SET_NAME |-> "REGULATION_UP_ZONES",
     RESERVE_PROJECT_OPERATIONAL_TIMEPOINTS_SET_NAME |->
         "REGULATION_UP_PROJECT_OPERATIONAL_TIMEPOINTS"]

ReserveProducts == {"lf_reserves_up", "regulation_up"}

ModuleConstants(product) ==
    IF product = "lf_reserves_up" THEN LF_RESERVES_UP ELSE REGULATION_UP

\* What each function of the module passes on to the generic one.
\* Variant: the derate parameter's name is passed for the variable's.
determine_dynamic_components_args_derate_name(K) ==
    [reserve_module |-> K.MODULE_NAME,
     headroom_or_footroom_dict |-> K.HEADROOM_OR_FOOTROOM_DICT_NAME,
     ba_column_name |-> K.BA_COLUMN_NAME_IN_INPUT_FILE,
     reserve_provision_variable_name |-> K.RESERVE_PROVISION_DERATE_PARAM_NAME,
     reserve_provision_derate_param_name |-> K.RESERVE_PROVISION_DERATE_PARAM_NAME,
     reserve_balancing_area_param_name |-> K.RESERVE_BALANCING_AREA_PARAM_NAME]

determine_dynamic_components_args(K) ==
    [reserve_module |-> K.MODULE_NAME,
     headroom_or_footroom_dict |-> K.HEADROOM_OR_FOOTROOM_DICT_NAME,
     ba_column_name |-> K.BA_COLUMN_NAME_IN_INPUT_FILE,
     reserve_provision_variable_name |-> K.RESERVE_PROVISION_VARIABLE_NAME,
     reserve_provision_derate_param_name |-> K.RESERVE_PROVISION_DERATE_PARAM_NAME,
     reserve_balancing_area_param_name |-> K.RESERVE_BALANCING_AREA_PARAM_NAME]

add_model_components_args(K) ==
    [reserve_projects_set |-> K.RESERVE_PROJECTS_SET_NAME,
     reserve_balancing_area_param |-> K.RESERVE_BALANCING_AREA_PARAM_NAME,
     reserve_provision_derate_param |-> K.RESERVE_PROVISION_DERATE_PARAM_NAME,
     reserve_balancing_areas_set |-> K.RESERVE_BALANCING_AREAS_SET_NAME,
     reserve_project_operational_timepoints_set |->
         K.RESERVE_PROJECT_OPERATIONAL_TIMEPOINTS_SET_NAME,
     reserve_provision_variable_name |-> K.RESERVE_PROVISION_VARIABLE_NAME]

load_model_data_args(K) ==
    [ba_column_name |-> K.BA_COLUMN_NAME_IN_INPUT_FILE,
     reserve_balancing_area_param |-> K.RESERVE_BALANCING_AREA_PARAM_NAME,
     reserve_provision_derate_param |-> K.RESERVE_PROVISION_DERATE_PARAM_NAME,
     reserve_projects_set |-> K.RESERVE_PROJECTS_SET_NAME]

export_results_args(K) ==
    [module_name |-> K.MODULE_NAME,
     reserve_project_operational_timepoints_set |->
         K.RESERVE_PROJECT_OPERATIONAL_TIMEPOINTS_SET_NAME,
     reserve_provision_variable_name |-> K.RESERVE_PROVISION_VARIABLE_NAME]

\* ------------------------------------------------- the generic functions
\* "." in the ba column: the project provides none of this product.
ProjectsOfArea(tab, ba) == SelectSeq(ProjectOrder, LAMBDA prj : tab[prj] = ba)

\* The references to the provision variable of the projects of area ba at
\* timepoint tmp.
VariableReferences(tab, name, ba, tmp) ==
    [i \in DOMAIN ProjectsOfArea(tab, ba) |->
        [variable |-> name, project |-> ProjectsOfArea(tab, ba)[i],
         timepoint |-> tmp]]

AreasOfProjects(tab) == {tab[prj] : prj \in DOMAIN tab} \ {"."}

\* The aggregation mapping after the contribution: every provision variable
\* appended under (balancing area, timepoint).
generic_determine_dynamic_components(mapping, tab, a) ==
    [k \in DOMAIN mapping \cup (AreasOfProjects(tab) \X TIMEPOINTS) |->
        (IF k \in DOMAIN mapping THEN mapping[k] ELSE <<>>)
            \o (IF k \in AreasOfProjects(tab) \X TIMEPOINTS
                THEN VariableReferences(tab, a.reserve_provision_variable_name,
                                        k[1], k[2])
                ELSE <<>>)]

\* The abstract components, by the names passed.
generic_add_model_components(a) ==
    [sets |-> {a.reserve_projects_set,
               a.reserve_project_operational_timepoints_set},
     params |-> {a.reserve_balancing_area_param},
     vars |-> {a.reserve_provision_variable_name},
     projects |-> {},
     zone |-> EmptyMap,
     bounds |-> EmptyMap]

\* The bounds of the provision variable: zero and the project's headroom.
provision_bounds(prj, tmp) == <<0, headroom[prj]>>

\* The data: the projects with a balancing area, and that area.
generic_load_model_data(model, tab, a) ==
    [model EXCEPT
        !.projects = {prj \in DOMAIN tab : tab[prj] # "."},
        !.zone = [prj \in {q \in DOMAIN tab : tab[q] # "."} |-> tab[prj]],
        !.bounds = [k \in {q \in DOMAIN tab : tab[q] # "."} \X TIMEPOINTS |->
                       provision_bounds(k[1], k[2])]]

RECURSIVE SumOfTerms(_, _)
SumOfTerms(terms, R) ==
    IF terms = <<>>
    THEN 0
    ELSE R[<<terms[1].variable, terms[1].project, terms[1].timepoint>>]
             + SumOfTerms(Tail(terms), R)

\* Variant: <= for >=.
reserve_balance_rule_le(c, R) == SumOfTerms(c.terms, R) <= c.rhs

\* The balance of one area at one timepoint: provision >= requirement.
reserve_balance_rule(c, R) == SumOfTerms(c.terms, R) >= c.rhs

\* The constraints the Assembler builds from the aggregation mapping.
AssembledBalance ==
    [k \in (DOMAIN requirement) \X TIMEPOINTS |->
        [terms |-> IF k \in DOMAIN headroom_variables
                   THEN headroom_variables[k] ELSE <<>>,
         rhs |-> requirement[k[1]]]]

\* The indices of the provision variables of the model.
ProvisionIndices ==
    {<<v, k[1], k[2]>> : v \in reserve_model.vars, k \in DOMAIN reserve_model.bounds}

\* Every term is a variable of the model.
TermsResolve(b) ==
    \A k \in DOMAIN b : \A i \in DOMAIN b[k].terms :
        <<b[k].terms[i].variable, b[k].terms[i].project,
          b[k].terms[i].timepoint>> \in ProvisionIndices

ProvisionWithinBounds(R) ==
    \A x \in DOMAIN R :
        /\ reserve_model.bounds[<<x[2], x[3]>>][1] <= R[x]
        /\ R[x] <= reserve_model.bounds[<<x[2], x[3]>>][2]

BalanceHolds(R) == \A k \in DOMAIN balance : reserve_balance_rule(balance[k], R)

ReserveAdmissible(R) == ProvisionWithinBounds(R) /\ BalanceHolds(R)

\* ------------------------------------------------------------ the steps
InitReserves ==
    /\ NoFiles
    /\ NoBuild
    /\ NoResolution
    /\ NoJoining
    /\ reserve_product \in ReserveProducts
    /\ reserve_tab \in [ReserveProjects -> BalancingAreas \cup {"."}]
    /\ headroom \in [ReserveProjects -> HeadroomValues]
    /\ requirement \in [BalancingAreas -> RequirementValues]
    /\ reserve_pc = "determine_dynamic_components"
    /\ reserve_model = EmptyMap
    /\ balance = EmptyMap
    /\ reserve_solution = EmptyMap
    /\ reserve_results = {}

determine_dynamic_components ==
    /\ reserve_pc = "determine_dynamic_components"
    /\ LET a == determine_dynamic_components_args(ModuleConstants(reserve_product))
       IN  IF a.headroom_or_footroom_dict = "headroom_variables"
           THEN headroom_variables' =
                    generic_determine_dynamic_components(headroom_variables,
                                                         reserve_tab, a)
           ELSE UNCHANGED headroom_variables
    /\ reserve_pc' = "add_model_components"
    /\ UNCHANGED outside_reserves
    /\ UNCHANGED <<reserve_inputs, reserve_model, balance, reserve_solution,
                   reserve_results>>

add_model_components ==
    /\ reserve_pc = "add_model_components"
    /\ reserve_model' = generic_add_model_components(
                            add_model_components_args(ModuleConstants(reserve_product)))
    /\ reserve_pc' = "load_model_data"
    /\ UNCHANGED outside_reserves
    /\ UNCHANGED <<headroom_variables, reserve_inputs, balance, reserve_solution,
                   reserve_results>>

load_model_data ==
    /\ reserve_pc = "load_model_data"
    /\ reserve_model' = generic_load_model_data(
                            reserve_model, reserve_tab,
                            load_model_data_args(ModuleConstants(reserve_product)))
    /\ reserve_pc' = "assemble"
    /\ UNCHANGED outside_reserves
    /\ UNCHANGED <<headroom_variables, reserve_inputs, balance, reserve_solution,
                   reserve_results>>

\* The Assembler sums the contributions of each area and timepoint. A term
\* that names no variable of the model ends the build.
AssembleBalance ==
    /\ reserve_pc = "assemble"
    /\ IF TermsResolve(AssembledBalance)
       THEN balance' = AssembledBalance /\ reserve_pc' = "assembled"
       ELSE UNCHANGED balance /\ reserve_pc' = "raised"
    /\ UNCHANGED outside_reserves
    /\ UNCHANGED <<headroom_variables, reserve_inputs, reserve_model,
                   reserve_solution, reserve_results>>

SolveReserves ==
    /\ reserve_pc = "assembled"
    /\ \E R \in [ProvisionIndices -> ProvideGrid] :
          /\ ReserveAdmissible(R)
          /\ reserve_solution' = R
    /\ reserve_pc' = "solved"
    /\ UNCHANGED outside_reserves
    /\ UNCHANGED <<headroom_variables, reserve_inputs, reserve_model, balance,
                   reserve_results>>

ReservesInfeasible ==
    /\ reserve_pc = "assembled"
    /\ ~ \E R \in [ProvisionIndices -> ProvideGrid] : ReserveAdmissible(R)
    /\ reserve_pc' = "infeasible"
    /\ UNCHANGED outside_reserves
    /\ UNCHANGED <<headroom_variables, reserve_inputs, reserve_model, balance,
                   reserve_solution, reserve_results>>

\* One row for each project and timepoint, the value read from the variable
\* of the name passed.
generic_export_module_specific_results(a) ==
    {[module |-> a.module_name, project |-> k[1], timepoint |-> k[2],
      reserve_provision_mw |->
          reserve_solution[<<a.reserve_provision_variable_name, k[1], k[2]>>]] :
        k \in DOMAIN reserve_model.bounds}

export_results ==
    /\ reserve_pc = "solved"
    /\ LET a == export_results_args(ModuleConstants(reserve_product))
       IN  IF a.reserve_provision_variable_name \in reserve_model.vars
           THEN /\ reserve_results' = generic_export_module_specific_results(a)
                /\ reserve_pc' = "exported"
           ELSE /\ UNCHANGED reserve_results
                /\ reserve_pc' = "raised"
    /\ UNCHANGED outside_reserves
    /\ UNCHANGED <<headroom_variables, reserve_inputs, reserve_model, balance,
                   reserve_solution>>

NextReserves ==
    \/ determine_dynamic_components
    \/ add_model_components
    \/ load_model_data
    \/ AssembleBalance
    \/ SolveReserves
    \/ ReservesInfeasible
    \/ export_results

SpecReserves == InitReserves /\ [][NextReserves]_vars

\* ====================================================================
\* gen_ret_lin: the results file (export_module_specific_results)
\* ====================================================================
\* csv.writer writes every cell as its str(): numbers become text.
str(v) == ToString(v)

Technologies == {"Coal", "Gas"}
LoadZones == {"Zone1", "Zone2"}

ResultsHeader == <<"project", "period", "technology", "load_zone", "retire_mw">>

\* The row written for (prj, p) of model mod.
ResultsRow(mod, prj, p) ==
    <<prj, str(p), mod.technology[prj], mod.load_zone[prj],
      str(mod.GenRetLin_Retire_MW[<<prj, p>>])>>

\* The solved model, with the params of the project module.
SolvedInstance ==
    [technology |-> technology,
     load_zone |-> load_zone,
     GenRetLin_Retire_MW |-> GenRetLin_Retire_MW]

\* The text of the file after one call: the header, then one row per
\* member of GEN_RET_LIN_OPR_PRDS in the set's iteration order.
WrittenResults(mod, order) ==
    <<ResultsHeader>> \o
        [i \in 1..Len(order) |-> ResultsRow(mod, order[i][1], order[i][2])]

\* The tables of at most MaxExportRows rows, without fixed costs (the export
\* reads no cost).
ExportedTabs ==
    {ppt \in PeriodParamsTabs :
        /\ Cardinality(DOMAIN ppt) <= MaxExportRows
        /\ \A k \in DOMAIN ppt : ppt[k].fixed_cost_per_mw_yr = 0}

\* The params of the project module: the first project is a coal plant of
\* Zone1, the other one is of any technology and zone.
TechnologyParams ==
    {t \in [Projects -> Technologies] : t["CoalPlant1"] = "Coal"}

LoadZoneParams ==
    {z \in [Projects -> LoadZones] : z["CoalPlant1"] = "Zone1"}

\* A build that went through to its solution.
SolvedBuild ==
    /\ projects_tab \in [Projects -> CapacityTypes]
    /\ period_params_tab \in ExportedTabs
    /\ pc = "solved"
    /\ next_module = Len(ModuleLoadOrder) + 1
    /\ phase = "assembly"
    /\ capacity_type_operational_period_sets =
           SelectSeq([i \in DOMAIN ModuleLoadOrder |-> OprSetName(ModuleLoadOrder[i])],
                     LAMBDA n : \E c \in required_capacity_type_modules :
                                    OprSetName(c) = n)
    /\ headroom_variables = EmptyMap
    /\ fatal = FALSE
    /\ declared = ("gen_ret_lin" \in required_capacity_type_modules)
    /\ GEN_RET_LIN_OPR_PRDS = generator_period_list(projects_tab, period_params_tab)
    /\ gen_ret_lin_capacity_mw =
           gen_ret_lin_capacity_mw_dict(projects_tab, period_params_tab)
    /\ gen_ret_lin_fixed_cost_per_mw_yr =
           gen_ret_lin_fixed_cost_per_mw_yr_dict(projects_tab, period_params_tab)
    /\ IndicesValid
    /\ var_bounds = [k \in GEN_RET_LIN_OPR_PRDS |->
                         retire_capacity_bounds(ModelAt(EmptyMap), k[1], k[2])]
    /\ Retire_Forever_Constraint = GeneratedConstraints
    /\ GenRetLin_Retire_MW \in
           {R \in [GEN_RET_LIN_OPR_PRDS -> RetireMWGrid] : Admissible(R)}
    /\ Capacity_MW = [k \in GEN_RET_LIN_OPR_PRDS |->
                          capacity_rule(ModelAt(GenRetLin_Retire_MW), k[1], k[2])]
    /\ Capacity_Cost = [k \in GEN_RET_LIN_OPR_PRDS |->
                            capacity_cost_rule(ModelAt(GenRetLin_Retire_MW),
                                               k[1], k[2])]

\* A solved model and a results directory without the file.
InitExport ==
    /\ NoResolution
    /\ NoJoining
    /\ NoReserves
    /\ NoWriting
    /\ NoEnumeration
    /\ NoUniqueness
    /\ SolvedBuild
    /\ technology \in TechnologyParams
    /\ load_zone \in LoadZoneParams
    /\ opr_prds_order \in RowOrders(GEN_RET_LIN_OPR_PRDS)
    /\ results_file = {}
    /\ export_calls = 0

\* Variant: the file is opened for appending.
export_module_specific_results_appending ==
    /\ pc = "solved"
    /\ export_calls < MaxExports
    /\ results_file' =
           IF results_file = {}
           THEN {WrittenResults(SolvedInstance, opr_prds_order)}
           ELSE {f \o WrittenResults(SolvedInstance, opr_prds_order) :
                     f \in results_file}
    /\ export_calls' = export_calls + 1
    /\ UNCHANGED outside_exporting
    /\ UNCHANGED <<technology, load_zone, opr_prds_order>>

\* open(..., "w"): whatever the file held is gone.
export_module_specific_results ==
    /\ pc = "solved"
    /\ export_calls < MaxExports
    /\ results_file' = {WrittenResults(SolvedInstance, opr_prds_order)}
    /\ export_calls' = export_calls + 1
    /\ UNCHANGED outside_exporting
    /\ UNCHANGED <<technology, load_zone, opr_prds_order>>

NextExport == export_module_specific_results

SpecExport == InitExport /\ [][NextExport]_vars

\* ====================================================================
\* gen_ret_lin: the input file (write_module_specific_model_inputs)
\* ====================================================================
CapacityMWValues == {0, 100}

\* The subscenarios the function is called with: any portfolio, the first
\* of the other subscenarios.
SubscenarioArgs ==
    {[TEMPORAL_SCENARIO_ID |-> 1,
      PROJECT_EXISTING_CAPACITY_SCENARIO_ID |-> 1,
      PROJECT_EXISTING_FIXED_COST_SCENARIO_ID |-> 1,
      PROJECT_PORTFOLIO_SCENARIO_ID |-> pf] : pf \in PortfolioIds}

\* LEFT OUTER JOIN fixed_om: the cost per MW-year of (prj, p), or NULL,
\* written {}.
annual_fixed_cost_per_mw_year(subs, prj, p) ==
    {r.annual_fixed_cost_per_kw_year * 1000 :
        r \in {x \in inputs_project_existing_fixed_cost :
                  /\ x.project_existing_fixed_cost_scenario_id =
                         subs.PROJECT_EXISTING_FIXED_COST_SCENARIO_ID
                  /\ x.project = prj
                  /\ x.period = p}}

\* The rows of the SELECT.
get_module_specific_inputs_from_database(subs) ==
    {[project |-> pf.project,
      period |-> rp.period,
      existing_capacity_mw |-> cap.existing_capacity_mw,
      annual_fixed_cost_per_mw_year |->
          annual_fixed_cost_per_mw_year(subs, pf.project, rp.period)] :
        <<pf, rp, cap>> \in
            {t \in inputs_project_portfolios \X inputs_temporal_periods
                       \X inputs_project_existing_capacity :
                /\ t[2].temporal_scenario_id = subs.TEMPORAL_SCENARIO_ID
                /\ t[3].project_existing_capacity_scenario_id =
                       subs.PROJECT_EXISTING_CAPACITY_SCENARIO_ID
                /\ t[3].existing_capacity_mw > 0
                /\ t[3].project = t[1].project
                /\ t[3].period = t[2].period
                /\ t[1].project_portfolio_scenario_id =
                       subs.PROJECT_PORTFOLIO_SCENARIO_ID
                /\ t[1].capacity_type = "gen_ret_lin"}}

TabHeader ==
    <<"project", "period", "existing_capacity_mw", "fixed_cost_per_mw_yr">>

\* writer.writerow(row): the cells as text, None as the empty text.
TabLine(row) ==
    <<row.project, str(row.period), str(row.existing_capacity_mw),
      IF row.annual_fixed_cost_per_mw_year = {}
      THEN ""
      ELSE str(CHOOSE c \in row.annual_fixed_cost_per_mw_year : TRUE)>>

TabLines(ep_capacities) ==
    [i \in 1..Len(ep_capacities) |-> TabLine(ep_capacities[i])]

WriterPortfolios ==
    {[project_portfolio_scenario_id |-> 1, project |-> "CoalPlant1",
      capacity_type |-> "gen_ret_lin"],
     [project_portfolio_scenario_id |-> 1, project |-> "GasPlant2",
      capacity_type |-> "gen_ret_lin"],
     [project_portfolio_scenario_id |-> 2, project |-> "CoalPlant1",
      capacity_type |-> "gen_spec"],
     [project_portfolio_scenario_id |-> 2, project |-> "GasPlant2",
      capacity_type |-> "gen_ret_lin"]}

CapacityKeySets ==
    {K \in SUBSET (Projects \X PERIODS) : Cardinality(K) <= MaxCapacityRows}

\* inputs_project_existing_capacity: at most MaxCapacityRows rows, one per
\* (project, period), of the first subscenario; the second subscenario has
\* one row, which no call asks for.
ExistingCapacityTabs ==
    UNION {{{[project_existing_capacity_scenario_id |-> 1, project |-> k[1],
              period |-> k[2], existing_capacity_mw |-> caps[k]] : k \in K}
            \cup {[project_existing_capacity_scenario_id |-> 2,
                   project |-> "GasPlant2", period |-> first_period,
                   existing_capacity_mw |-> 100]} :
                caps \in [K -> CapacityMWValues]} : K \in CapacityKeySets}

ExistingFixedCostTabs ==
    {{},
     {[project_existing_fixed_cost_scenario_id |-> 1, project |-> "CoalPlant1",
       period |-> p, annual_fixed_cost_per_kw_year |-> 50] : p \in PERIODS}}

\* A database and an inputs directory without the file.
InitWriting ==
    /\ NoBuild
    /\ scenarios = EmptyMap
    /\ NotResolving
    /\ NoJoining
    /\ NoReserves
    /\ NoExporting
    /\ NoEnumeration
    /\ NoUniqueness
    /\ inputs_project_portfolios = WriterPortfolios
    /\ inputs_temporal_periods =
           {[temporal_scenario_id |-> 1, period |-> p] : p \in PERIODS}
    /\ inputs_project_existing_capacity \in ExistingCapacityTabs
    /\ inputs_project_existing_fixed_cost \in ExistingFixedCostTabs
    /\ tab_file = {}
    /\ write_calls = 0

\* Variant: the header is written on every call.
write_module_specific_model_inputs_with_header ==
    /\ write_calls < MaxWrites
    /\ \E subs \in SubscenarioArgs :
          \E ep_capacities \in RowOrders(get_module_specific_inputs_from_database(subs)) :
              tab_file' =
                  IF tab_file # {}
                  THEN {f \o <<TabHeader>> \o TabLines(ep_capacities) :
                            f \in tab_file}
                  ELSE {<<TabHeader>> \o TabLines(ep_capacities)}
    /\ write_calls' = write_calls + 1
    /\ UNCHANGED outside_writing
    /\ UNCHANGED <<inputs_project_portfolios, input_tables>>

\* The query's rows come in the database's order; they are appended to the
\* file if there is one, and follow the header in a new file if not.
write_module_specific_model_inputs ==
    /\ write_calls < MaxWrites
    /\ \E subs \in SubscenarioArgs :
          \E ep_capacities \in RowOrders(get_module_specific_inputs_from_database(subs)) :
              tab_file' =
                  IF tab_file # {}
                  THEN {f \o TabLines(ep_capacities) : f \in tab_file}
                  ELSE {<<TabHeader>> \o TabLines(ep_capacities)}
    /\ write_calls' = write_calls + 1
    /\ UNCHANGED outside_writing
    /\ UNCHANGED <<inputs_project_portfolios, input_tables>>

NextWriting == write_module_specific_model_inputs

SpecWriting == InitWriting /\ [][NextWriting]_vars

\* ====================================================================
\* Subproblems and stages of a scenario (scenario_chars.py, SubProblems)
\* ====================================================================
SubproblemIds == {1, 2}
StageIds == {1, 2}

\* INNER JOIN scenarios USING (temporal_scenario_id) WHERE scenario_id = sid:
\* the temporal_scenario_id values of the scenario's row, none or one.
temporal_scenario_ids(sid) ==
    {scenarios[x].subscenario["temporal_scenario_id"] :
        x \in {y \in DOMAIN scenarios : y = sid}}

\* SELECT subproblem_id FROM inputs_temporal_subproblems ...
select_subproblem_id(sid) ==
    {r.subproblem_id :
        r \in {x \in inputs_temporal_subproblems :
                  x.temporal_scenario_id \in temporal_scenario_ids(sid)}}

\* SELECT stage_id FROM inputs_temporal_subproblems_stages ...
\* AND subproblem_id = s
select_stage_id(sid, s) ==
    {r.stage_id :
        r \in {x \in inputs_temporal_subproblems_stages :
                  /\ x.temporal_scenario_id \in temporal_scenario_ids(sid)
                  /\ x.subproblem_id = s}}

\* The dicts {subproblem: [stages]} the loop can build: for every subproblem
\* the stages of its query, in the database's order.
subproblem_stage_dicts(sid) ==
    {d \in [select_subproblem_id(sid) ->
               UNION {RowOrders(select_stage_id(sid, s)) :
                          s \in select_subproblem_id(sid)}] :
        \A s \in select_subproblem_id(sid) :
            d[s] \in RowOrders(select_stage_id(sid, s))}

\* The rows of another temporal subscenario, in every table.
OtherTemporalScenario == 20

SubproblemTabs ==
    {{[temporal_scenario_id |-> 10, subproblem_id |-> s] : s \in S}
     \cup {[temporal_scenario_id |-> OtherTemporalScenario, subproblem_id |-> 1]} :
        S \in SUBSET SubproblemIds}

StageTabs ==
    {{[temporal_scenario_id |-> 10, subproblem_id |-> k[1], stage_id |-> k[2]] :
          k \in K}
     \cup {[temporal_scenario_id |-> OtherTemporalScenario, subproblem_id |-> 1,
            stage_id |-> 1]} :
        K \in SUBSET (SubproblemIds \X StageIds)}

\* inputs_temporal_timepoints: the (subproblem, stage) pairs that have a
\* timepoint, and the period of that timepoint.
TimepointTabs ==
    {{[temporal_scenario_id |-> 10, subproblem_id |-> k[1], stage_id |-> k[2],
       period |-> first_period] : k \in K} :
        K \in SUBSET (SubproblemIds \X StageIds)}

\* A database and a scenario_id whose subproblems are asked for; scenario 2
\* has no row in scenarios.
InitEnumeration ==
    /\ NoBuild
    /\ NoJoining
    /\ NoReserves
    /\ NoExporting
    /\ NoWriting
    /\ NoUniqueness
    /\ NothingResolved
    /\ scenarios = [x \in {1} |-> ScenarioRow(NoFlags, x, 1)]
    /\ inputs_project_portfolios = {}
    /\ scenario_id \in ScenarioIds
    /\ inputs_temporal_subproblems \in SubproblemTabs
    /\ inputs_temporal_subproblems_stages \in StageTabs
    /\ inputs_temporal_timepoints \in TimepointTabs
    /\ subproblems_pc = "SubProblems"
    /\ SUBPROBLEMS = {}
    /\ SUBPROBLEM_STAGE_DICT = EmptyMap

\* SubProblems.__init__: the two attributes are filled from the queries'
\* rows; no other table is read and nothing is raised.
SubProblems_init ==
    /\ subproblems_pc = "SubProblems"
    /\ SUBPROBLEMS' \in {{o} : o \in RowOrders(select_subproblem_id(scenario_id))}
    /\ SUBPROBLEM_STAGE_DICT' \in subproblem_stage_dicts(scenario_id)
    /\ subproblems_pc' = "constructed"
    /\ UNCHANGED outside_enumeration
    /\ UNCHANGED <<database, resolution, temporal_tables>>

NextEnumeration == SubProblems_init

SpecEnumeration == InitEnumeration /\ [][NextEnumeration]_vars

\* ====================================================================
\* auxiliary.check_list_items_are_unique
\* ====================================================================
\* The positions of item in l, counted from 0.
find_list_item_position(l, item) ==
    SelectSeq([i \in 1..Len(l) |-> i - 1], LAMBDA i : l[i + 1] = item)

\* Raises ValueError for a list of more than one item.
check_list_has_single_item(l) ==
    IF Len(l) > 1 THEN "ValueError" ELSE "None"

\* Variant: only the first item's positions are looked at.
check_list_items_are_unique_first_item(l) ==
    IF /\ Len(l) >= 1
       /\ check_list_has_single_item(find_list_item_position(l, l[1]))
              = "ValueError"
    THEN "ValueError"
    ELSE "None"

\* Every item's positions are looked up; an item at more than one position
\* raises ValueError, otherwise the call returns None.
check_list_items_are_unique(l) ==
    IF \E i \in 1..Len(l) :
           check_list_has_single_item(find_list_item_position(l, l[i]))
               = "ValueError"
    THEN "ValueError"
    ELSE "None"

\* A list of at most MaxItems items.
InitUniqueness ==
    /\ NoBuild
    /\ NoResolution
    /\ NoJoining
    /\ NoReserves
    /\ NoExporting
    /\ NoWriting
    /\ NoEnumeration
    /\ checked_list \in UNION {[1..n -> Elements] : n \in 0..MaxItems}
    /\ check_outcome = {}

check_list_items_are_unique_call ==
    /\ check_outcome = {}
    /\ check_outcome' = {check_list_items_are_unique(checked_list)}
    /\ UNCHANGED outside_uniqueness
    /\ UNCHANGED checked_list

NextUniqueness == check_list_items_are_unique_call

SpecUniqueness == InitUniqueness /\ [][NextUniqueness]_vars

\* ====================================================================
\* Properties
\* ====================================================================
\* The claims' vocabulary, read off the input tables.
PreSpecifiedCapacityMW(k) == period_params_tab[k].existing_capacity_mw

FixedCostPerMWYear(k) == period_params_tab[k].fixed_cost_per_mw_yr

EligiblePeriods(g) == {k[2] : k \in {j \in GEN_RET_LIN_OPR_PRDS : j[1] = g}}

EligibleProjects == {k[1] : k \in GEN_RET_LIN_OPR_PRDS}

ScenarioFirstPeriod == CHOOSE t \in PERIODS : \A u \in PERIODS : t <= u

FirstEligiblePeriod(g) ==
    CHOOSE t \in EligiblePeriods(g) : \A u \in EligiblePeriods(g) : t <= u

\* The (p, t) the irreversibility constraint is stated for.
NonExempt ==
    {k \in GEN_RET_LIN_OPR_PRDS :
        k[2] # ScenarioFirstPeriod /\ k[2] # FirstEligiblePeriod(k[1])}

PrevKey(k) ==
    <<k[1], CHOOSE t \in PERIODS :
                t < k[2] /\ \A u \in PERIODS : u < k[2] => u <= t>>

Loaded == pc \in {"loaded", "built", "failed", "solved"}
Built == pc \in {"built", "solved"}
Solved == pc = "solved"

\* C1: in every admissible assignment the retirement variable of every
\* member of GEN_RET_LIN_OPR_PRDS lies between 0 and the pre-specified
\* capacity of that project and period.
C1_RetireWithinCapacity ==
    Solved =>
        /\ DOMAIN GenRetLin_Retire_MW = GEN_RET_LIN_OPR_PRDS
        /\ \A k \in GEN_RET_LIN_OPR_PRDS :
              /\ 0 <= GenRetLin_Retire_MW[k]
              /\ GenRetLin_Retire_MW[k] <= PreSpecifiedCapacityMW(k)

\* Both ends of the range are taken: one pair fully retired, one not at all.
C1_Witness ==
    /\ Solved
    /\ \E k \in GEN_RET_LIN_OPR_PRDS :
          PreSpecifiedCapacityMW(k) > 0
          /\ GenRetLin_Retire_MW[k] = PreSpecifiedCapacityMW(k)
    /\ \E k \in GEN_RET_LIN_OPR_PRDS :
          PreSpecifiedCapacityMW(k) > 0 /\ GenRetLin_Retire_MW[k] = 0

\* C2: the capacity the module reports for an eligible (p, t) is the
\* pre-specified capacity minus the retired capacity, and nothing else.
C2_CapacityIsNetOfRetirement ==
    Solved =>
        /\ DOMAIN Capacity_MW = GEN_RET_LIN_OPR_PRDS
        /\ \A k \in GEN_RET_LIN_OPR_PRDS :
              Capacity_MW[k] = PreSpecifiedCapacityMW(k) - GenRetLin_Retire_MW[k]

C2_Witness ==
    /\ Solved
    /\ \E k \in GEN_RET_LIN_OPR_PRDS :
          /\ GenRetLin_Retire_MW[k] = 300
          /\ Capacity_MW[k] = 200

\* C3: for every eligible (p, t) with t neither the scenario's first period
\* nor p's first eligible period, the built model holds the constraint
\* NetCapacity(p, t) <= NetCapacity(p, previous_period(t)), and every
\* admissible assignment satisfies it.
C3_Irreversibility ==
    /\ Built =>
          \A k \in NonExempt :
              [lhs |-> k, rhs |-> PrevKey(k)] \in Retire_Forever_Constraint
    /\ Solved =>
          \A k \in NonExempt :
              /\ PrevKey(k) \in DOMAIN Capacity_MW
              /\ Capacity_MW[k] <= Capacity_MW[PrevKey(k)]

\* A solved model in which the constraint binds: the pre-specified capacity
\* rises and the rise is retired.
C3_Witness ==
    /\ Solved
    /\ \E k \in NonExempt :
          /\ PreSpecifiedCapacityMW(k) > PreSpecifiedCapacityMW(PrevKey(k))
          /\ Capacity_MW[k] = Capacity_MW[PrevKey(k)]
          /\ Capacity_MW[k] > 0

\* C4: in every admissible assignment the net capacity of a project does not
\* increase from one of its eligible periods to its next eligible period.
ConsecutiveEligible(g, t1, t2) ==
    /\ t1 \in EligiblePeriods(g)
    /\ t2 \in EligiblePeriods(g)
    /\ t1 < t2
    /\ ~ \E t \in EligiblePeriods(g) : t1 < t /\ t < t2

C4_NetCapacityNonIncreasing ==
    Solved =>
        \A g \in EligibleProjects : \A t1, t2 \in PERIODS :
            ConsecutiveEligible(g, t1, t2) =>
                (PreSpecifiedCapacityMW(<<g, t2>>) - GenRetLin_Retire_MW[<<g, t2>>])
                    <= (PreSpecifiedCapacityMW(<<g, t1>>)
                            - GenRetLin_Retire_MW[<<g, t1>>])

\* A project eligible in all three periods whose net capacity strictly falls
\* twice.
C4_Witness ==
    /\ Solved
    /\ \E g \in EligibleProjects :
          /\ Cardinality(EligiblePeriods(g)) >= 3
          /\ \E t1, t2, t3 \in EligiblePeriods(g) :
                /\ ConsecutiveEligible(g, t1, t2)
                /\ ConsecutiveEligible(g, t2, t3)
                /\ Capacity_MW[<<g, t2>>] < Capacity_MW[<<g, t1>>]
                /\ Capacity_MW[<<g, t3>>] < Capacity_MW[<<g, t2>>]

\* C5: a project with exactly one eligible period yields no irreversibility
\* constraint: the rule skips its only (p, t), and the built model holds no
\* constraint for it.
SinglePeriodProjects ==
    {g \in EligibleProjects : Cardinality(EligiblePeriods(g)) = 1}

C5_SinglePeriodNoConstraint ==
    /\ Loaded =>
          \A g \in SinglePeriodProjects : \A t \in EligiblePeriods(g) :
              retire_forever_rule(ModelAt(EmptyMap), g, t) = {}
    /\ Built =>
          \A g \in SinglePeriodProjects :
              ~ \E c \in Retire_Forever_Constraint : c.lhs[1] = g \/ c.rhs[1] = g

\* A built model with a single-period project whose period is not the
\* scenario's first, beside a project that does have a constraint.
C5_Witness ==
    /\ Built
    /\ \E g \in SinglePeriodProjects : ScenarioFirstPeriod \notin EligiblePeriods(g)
    /\ Retire_Forever_Constraint # {}

\* C6: a project whose first eligible period is later than the scenario's
\* first period has no constraint in that first eligible period: every value
\* its bounds allow there is taken by some admissible assignment.
LateStarters ==
    {g \in EligibleProjects : FirstEligiblePeriod(g) > ScenarioFirstPeriod}

\* Everything else fully retired, value v at index k.
AllRetiredBut(k, v) ==
    [j \in GEN_RET_LIN_OPR_PRDS |->
        IF j = k THEN v ELSE gen_ret_lin_capacity_mw[j]]

C6_LateFirstPeriodExempt ==
    /\ Loaded =>
          \A g \in LateStarters :
              retire_forever_rule(ModelAt(EmptyMap), g, FirstEligiblePeriod(g)) = {}
    /\ Built =>
          \A g \in LateStarters :
              ~ \E c \in Retire_Forever_Constraint :
                  c.lhs = <<g, FirstEligiblePeriod(g)>>
    /\ pc = "built" =>
          \A g \in LateStarters : \A v \in RetireMWGrid :
              (0 <= v /\ v <= PreSpecifiedCapacityMW(<<g, FirstEligiblePeriod(g)>>))
                  => Admissible(AllRetiredBut(<<g, FirstEligiblePeriod(g)>>, v))

\* A late starter keeps its whole capacity in its first eligible period and
\* is constrained in its next one.
C6_Witness ==
    /\ Solved
    /\ \E g \in LateStarters :
          /\ Cardinality(EligiblePeriods(g)) >= 2
          /\ GenRetLin_Retire_MW[<<g, FirstEligiblePeriod(g)>>] = 0
          /\ PreSpecifiedCapacityMW(<<g, FirstEligiblePeriod(g)>>) = 500
          /\ \E c \in Retire_Forever_Constraint :
                c.rhs = <<g, FirstEligiblePeriod(g)>>

\* C7: the cost the module reports for an eligible (p, t) is net capacity
\* times the fixed cost per MW-year; with a positive fixed cost, retiring
\* more strictly lowers it.
\* Nothing retired anywhere but v at index k.
RetireAt(k, v) == [j \in GEN_RET_LIN_OPR_PRDS |-> IF j = k THEN v ELSE 0]

C7_CostIsNetCapacityTimesFixedCost ==
    /\ Solved =>
          /\ DOMAIN Capacity_Cost = GEN_RET_LIN_OPR_PRDS
          /\ \A k \in GEN_RET_LIN_OPR_PRDS :
                Capacity_Cost[k] =
                    (PreSpecifiedCapacityMW(k) - GenRetLin_Retire_MW[k])
                        * FixedCostPerMWYear(k)
    /\ pc = "built" =>
          \A k \in GEN_RET_LIN_OPR_PRDS :
              FixedCostPerMWYear(k) > 0 =>
                  \A v1, v2 \in RetireMWGrid :
                      v1 < v2 =>
                          capacity_cost_rule(ModelAt(RetireAt(k, v2)), k[1], k[2])
                              < capacity_cost_rule(ModelAt(RetireAt(k, v1)), k[1], k[2])

C7_Witness ==
    /\ Solved
    /\ \E k \in GEN_RET_LIN_OPR_PRDS :
          /\ FixedCostPerMWYear(k) = 50
          /\ GenRetLin_Retire_MW[k] = 300
          /\ Capacity_Cost[k] = 10000
    /\ \E k \in GEN_RET_LIN_OPR_PRDS :
          FixedCostPerMWYear(k) = 0 /\ GenRetLin_Retire_MW[k] > 0

\* C8: CoalPlant1, 500 MW pre-specified and a fixed cost of 50 per MW-year in
\* 2020, 2022 and 2024. With 300 MW retired in 2022 the net capacity of 2022
\* is 200 MW and at least 300 MW are retired in 2024. The cost paid is 10000
\* in 2022, at most 10000 in 2024 and, in 2020, between 10000 and 25000:
\* 25000 when nothing is retired in 2020.
Coal(t) == <<"CoalPlant1", t>>

CoalPlant1Scenario ==
    /\ projects_tab["CoalPlant1"] = "gen_ret_lin"
    /\ \A t \in {2020, 2022, 2024} :
          /\ Coal(t) \in DOMAIN period_params_tab
          /\ PreSpecifiedCapacityMW(Coal(t)) = 500
          /\ FixedCostPerMWYear(Coal(t)) = 50

CoalPlant1Retires300In2022 ==
    /\ Solved
    /\ CoalPlant1Scenario
    /\ GenRetLin_Retire_MW[Coal(2022)] = 300

C8_CoalPlant1 ==
    CoalPlant1Retires300In2022 =>
        /\ Capacity_MW[Coal(2022)] = 200
        /\ GenRetLin_Retire_MW[Coal(2024)] >= 300
        /\ Capacity_MW[Coal(2024)] <= 200
        /\ Capacity_Cost[Coal(2022)] = 10000
        /\ Capacity_Cost[Coal(2024)] <= 10000
        /\ Capacity_Cost[Coal(2020)] <= 25000
        /\ Capacity_Cost[Coal(2020)] >= Capacity_Cost[Coal(2022)]
        /\ GenRetLin_Retire_MW[Coal(2020)] = 0 => Capacity_Cost[Coal(2020)] = 25000

\* The scenario as told: nothing retired in 2020, 300 MW in 2022.
C8_Witness ==
    /\ CoalPlant1Retires300In2022
    /\ GenRetLin_Retire_MW[Coal(2020)] = 0
    /\ Capacity_Cost[Coal(2020)] = 25000
    /\ Capacity_Cost[Coal(2022)] = 10000
    /\ GenRetLin_Retire_MW[Coal(2024)] = 300

\* C8 as stated: the cost paid in 2020 is 25000 whenever 300 MW are retired
\* in 2022.
C8_AsStated ==
    CoalPlant1Retires300In2022 =>
        /\ Capacity_MW[Coal(2022)] = 200
        /\ GenRetLin_Retire_MW[Coal(2024)] >= 300
        /\ Capacity_MW[Coal(2024)] <= 200
        /\ Capacity_Cost[Coal(2020)] = 25000
        /\ Capacity_Cost[Coal(2022)] = 10000
        /\ Capacity_Cost[Coal(2024)] <= 10000

\* C9: one call of add_module_specific_components in the contribution phase
\* appends the one name "GEN_RET_LIN_OPR_PRDS" to the end of the shared list
\* and changes nothing else in the registry.
ContributionCall == pc = "contribution" /\ ~declared /\ declared'

C9_AppendsOwnSetNameOnly ==
    [][ContributionCall =>
          /\ capacity_type_operational_period_sets' =
                 Append(capacity_type_operational_period_sets, "GEN_RET_LIN_OPR_PRDS")
          /\ headroom_variables' = headroom_variables
          /\ phase' = phase]_vars

\* The module has contributed after another one.
C9_Witness ==
    /\ declared
    /\ ~fatal
    /\ capacity_type_operational_period_sets =
           <<"GEN_SPEC_OPR_PRDS", "GEN_RET_LIN_OPR_PRDS">>

Occurrences(name, seq) == Cardinality({i \in DOMAIN seq : seq[i] = name})

LoadedModules == {ModuleLoadOrder[i] : i \in DOMAIN ModuleLoadOrder}

ActiveModules == LoadedModules \cap required_capacity_type_modules

EveryActiveModuleContributedOnce ==
    \A m \in LoadedModules :
        Occurrences(OprSetName(m), capacity_type_operational_period_sets)
            = IF m \in ActiveModules THEN 1 ELSE 0

C11_RegistryLifecycle ==
    /\ phase = "contribution"
    /\ capacity_type_operational_period_sets = <<>>
    /\ [](\A m \in LoadedModules :
              Occurrences(OprSetName(m), capacity_type_operational_period_sets) <= 1)
    /\ [](phase = "assembly" => EveryActiveModuleContributedOnce)
    /\ [][(phase # "assembly" /\ phase' = "assembly") =>
              (EveryActiveModuleContributedOnce
               /\ UNCHANGED capacity_type_operational_period_sets)]_vars
    /\ [][phase = "assembly" => phase' = "assembly"]_vars

\* Both modules were active, both contributed, and the Assembler has run.
C11_Witness ==
    /\ pc = "assembled"
    /\ phase = "assembly"
    /\ ActiveModules = {"gen_spec", "gen_ret_lin"}
    /\ Len(capacity_type_operational_period_sets) = 2

\* C12: the shared list after the contribution phase is the module load
\* order restricted to the active modules: it is a function of the set of
\* active modules alone, whatever the projects table and the period
\* parameters table hold.
LoadOrderedNames(active) ==
    SelectSeq([i \in DOMAIN ModuleLoadOrder |-> OprSetName(ModuleLoadOrder[i])],
              LAMBDA n : \E m \in active : OprSetName(m) = n)

C12_ListFollowsLoadOrder ==
    phase = "assembly" =>
        capacity_type_operational_period_sets = LoadOrderedNames(ActiveModules)

\* The same two active modules under the other assignment of tags to
\* projects, with data read: the list is in load order.
C12_Witness ==
    /\ pc = "loaded"
    /\ projects_tab["CoalPlant1"] = "gen_ret_lin"
    /\ projects_tab["GasPlant2"] = "gen_spec"
    /\ period_params_tab # EmptyMap
    /\ capacity_type_operational_period_sets =
           <<"GEN_SPEC_OPR_PRDS", "GEN_RET_LIN_OPR_PRDS">>

\* C13: join_sets returns the union of the named sets of the model: nothing
\* for an empty list of names, the named set itself for one name, every
\* member of every named set for several; the members do not depend on the
\* order of the names.
Reorderings(names) ==
    {[i \in DOMAIN names |-> names[f[i]]] : f \in Permutations(DOMAIN names)}

C13_JoinSetsIsTheUnion ==
    \A r \in joined :
        /\ \A e \in Elements :
              e \in r.members <=> \E i \in DOMAIN set_list : e \in mod_sets[set_list[i]]
        /\ set_list = <<>> => r.members = {}
        /\ Len(set_list) = 1 => r.members = mod_sets[set_list[1]]
        /\ \A q \in Reorderings(set_list) :
              join_sets(mod_sets, q).members = r.members

\* Two disjoint sets joined, the second named first.
C13_Witness ==
    /\ mod_sets["set1"] = {1, 2}
    /\ mod_sets["set2"] = {3, 4}
    /\ set_list = <<"set2", "set1">>
    /\ \E r \in joined : r.members = {1, 2, 3, 4}

\* C14: a project's (project, period) rows enter GEN_RET_LIN_OPR_PRDS if and
\* only if the project's capacity_type in projects.tab is "gen_ret_lin", each
\* such row once; the set's name is entered in the shared list at most once.
C14_PairsEnterByCapacityType ==
    /\ Loaded =>
          /\ GEN_RET_LIN_OPR_PRDS \subseteq DOMAIN period_params_tab
          /\ \A k \in DOMAIN period_params_tab :
                k \in GEN_RET_LIN_OPR_PRDS <=> projects_tab[k[1]] = "gen_ret_lin"
          /\ DOMAIN gen_ret_lin_capacity_mw = GEN_RET_LIN_OPR_PRDS
          /\ DOMAIN gen_ret_lin_fixed_cost_per_mw_yr = GEN_RET_LIN_OPR_PRDS
    /\ Occurrences("GEN_RET_LIN_OPR_PRDS",
                   capacity_type_operational_period_sets) <= 1

\* The table holds rows of a gen_ret_lin project and of a gen_spec project:
\* the first are in the set, the second are not.
C14_Witness ==
    /\ Loaded
    /\ \E k \in DOMAIN period_params_tab :
          projects_tab[k[1]] = "gen_ret_lin" /\ k \in GEN_RET_LIN_OPR_PRDS
    /\ \E k \in DOMAIN period_params_tab :
          projects_tab[k[1]] = "gen_spec" /\ k \notin GEN_RET_LIN_OPR_PRDS

\* C15: product regulation_up, projects A (headroom 50) and B (headroom 40)
\* in balancing area Z with requirement 80. The balance assembled for Z at
\* timepoint 1 is ProvideA(1) + ProvideB(1) >= 80, each provision bounded by
\* zero and its own headroom; providing 50 and 40 satisfies it, providing 50
\* and 20 does not.
RegulationUpScenario ==
    /\ reserve_product = "regulation_up"
    /\ reserve_tab = [prj \in ReserveProjects |-> "Z"]
    /\ headroom = [prj \in ReserveProjects |-> IF prj = "A" THEN 50 ELSE 40]
    /\ requirement["Z"] = 80

Provide(prj, tmp) == <<"Provide_Regulation_Up_MW", prj, tmp>>

\* A provides a and B provides b at timepoint 1, nothing else is provided.
Providing(a, b) ==
    [x \in ProvisionIndices |->
        IF x = Provide("A", 1) THEN a ELSE IF x = Provide("B", 1) THEN b ELSE 0]

C15_RegulationUpBalance ==
    (RegulationUpScenario /\ reserve_pc \in {"assembled", "solved", "exported"}) =>
        /\ balance[<<"Z", 1>>].rhs = 80
        /\ Len(balance[<<"Z", 1>>].terms) = 2
        /\ {<<balance[<<"Z", 1>>].terms[i].variable,
              balance[<<"Z", 1>>].terms[i].project,
              balance[<<"Z", 1>>].terms[i].timepoint>> : i \in 1..2}
               = {Provide("A", 1), Provide("B", 1)}
        /\ reserve_model.bounds[<<"A", 1>>] = <<0, 50>>
        /\ reserve_model.bounds[<<"B", 1>>] = <<0, 40>>
        /\ ProvisionWithinBounds(Providing(50, 40))
        /\ reserve_balance_rule(balance[<<"Z", 1>>], Providing(50, 40))
        /\ ~reserve_balance_rule(balance[<<"Z", 1>>], Providing(50, 20))
        /\ reserve_pc \in {"solved", "exported"} =>
              /\ reserve_solution[Provide("A", 1)] + reserve_solution[Provide("B", 1)]
                     >= 80
              /\ reserve_solution[Provide("A", 1)] <= 50
              /\ reserve_solution[Provide("B", 1)] <= 40

\* The scenario solved with 50 + 40 at timepoint 1.
C15_Witness ==
    /\ RegulationUpScenario
    /\ reserve_pc = "solved"
    /\ reserve_solution[Provide("A", 1)] = 50
    /\ reserve_solution[Provide("B", 1)] = 40

\* C16: after the contribution the aggregation mapping holds the provision
\* variable of every project with a balancing area once under that area and
\* each timepoint, and under no other key; lf_reserves_up contributes to
\* "headroom_variables" under the name "Provide_LF_Reserves_Up_MW", the name
\* of the variable it creates and of the variable it exports.
Contributed == reserve_pc \notin {"off", "determine_dynamic_components"}

ReferencesUnder(k) ==
    IF k \in DOMAIN headroom_variables
    THEN {headroom_variables[k][i] : i \in DOMAIN headroom_variables[k]}
    ELSE {}

\* Where the list under key k refers to project prj.
PositionsUnder(k, prj) ==
    IF k \in DOMAIN headroom_variables
    THEN {i \in DOMAIN headroom_variables[k] :
             headroom_variables[k][i].project = prj}
    ELSE {}

C16_ContributedUnderOwnArea ==
    /\ Contributed =>
          /\ \A prj \in ReserveProjects : \A ba \in BalancingAreas :
                \A tmp \in TIMEPOINTS :
                    Cardinality(PositionsUnder(<<ba, tmp>>, prj))
                        = IF reserve_tab[prj] = ba THEN 1 ELSE 0
          /\ \A k \in DOMAIN headroom_variables : \A r \in ReferencesUnder(k) :
                /\ reserve_tab[r.project] = k[1]
                /\ r.timepoint = k[2]
    /\ (Contributed /\ reserve_product = "lf_reserves_up") =>
          \A k \in DOMAIN headroom_variables : \A r \in ReferencesUnder(k) :
              r.variable = "Provide_LF_Reserves_Up_MW"
    /\ (reserve_product = "lf_reserves_up"
        /\ reserve_pc \notin {"off", "determine_dynamic_components",
                              "add_model_components"}) =>
          reserve_model.vars = {"Provide_LF_Reserves_Up_MW"}
    /\ (reserve_product = "lf_reserves_up" /\ reserve_pc = "exported") =>
          /\ \A row \in reserve_results :
                row.reserve_provision_mw =
                    reserve_solution[<<"Provide_LF_Reserves_Up_MW", row.project,
                                       row.timepoint>>]
          /\ \A k \in DOMAIN headroom_variables : \A r \in ReferencesUnder(k) :
                \E row \in reserve_results :
                    row.project = r.project /\ row.timepoint = r.timepoint

\* lf_reserves_up with A in area Z and B in area Y, exported.
C16_Witness ==
    /\ reserve_product = "lf_reserves_up"
    /\ reserve_pc = "exported"
    /\ reserve_tab["A"] = "Z"
    /\ reserve_tab["B"] = "Y"
    /\ Len(headroom_variables[<<"Z", 2>>]) = 1
    /\ \E row \in reserve_results : row.reserve_provision_mw > 0

\* C17: determine_feature_list returns the names of the features whose flag
\* is set for the scenario, and no other name; each name once; in the fixed
\* order that has "fuels" first and "local_capacity" last.
Rank(f) == CHOOSE i \in DOMAIN Features : Features[i] = f

C17_FeatureListIsTheSetFlags ==
    \A fl \in feature_list :
        /\ \A f \in FeatureNames :
              (\E i \in DOMAIN fl : fl[i] = f)
                  <=> scenarios[scenario_id].of[f] # 0
        /\ \A i, j \in DOMAIN fl : i < j => Rank(fl[i]) < Rank(fl[j])
        /\ \A i \in DOMAIN fl :
              /\ fl[i] = "fuels" => i = 1
              /\ fl[i] = "local_capacity" => i = Len(fl)

\* The first and the last feature are set, and nothing else.
C17_Witness ==
    /\ feature_list = {<<"fuels", "local_capacity">>}
    /\ scenarios[scenario_id].of["fuels"] = 1
    /\ scenarios[scenario_id].of["prm"] = 0

\* C18 as stated: resolving a scenario_id with no row in scenarios ends with
\* a NotFound error, before any build, and with no object constructed.
UnknownScenarioResolved ==
    scenario_id \notin DOMAIN scenarios /\ resolve_pc # "OptionalFeatures"

C18_FailsWithNotFound ==
    UnknownScenarioResolved =>
        /\ resolve_pc = "raised"
        /\ raised = "NotFound"
        /\ optional_features = {}
        /\ subscenarios = {}
        /\ pc = "off"

\* C19: resolving the same scenario_id once more against the same database
\* gives the same OptionalFeatures, feature list and SubScenarios and the same
\* set of required capacity types; no step of the resolution changes the
\* database.
Members(lists) == UNION {{q[i] : i \in DOMAIN q} : q \in lists}

C19_ResolutionIsARepeatableRead ==
    /\ [][database' = database]_vars
    /\ [][pass' > 1 =>
              /\ optional_features' = optional_features
              /\ feature_list' = feature_list
              /\ subscenarios' = subscenarios
              /\ required_modules # {} =>
                     Members(required_modules') = Members(required_modules)]_vars

\* A scenario with two features set and two capacity types in its portfolio
\* has been resolved a second time.
C19_Witness ==
    /\ pass = 2
    /\ resolve_pc = "resolved"
    /\ \E fl \in feature_list : Len(fl) = 2
    /\ \E self \in subscenarios : self.SCENARIO_ID = scenario_id
    /\ \E self \in optional_features : self.SCENARIO_ID = scenario_id
    /\ Members(required_modules) = {"gen_ret_lin", "gen_spec"}

\* C20: what get_required_capacity_type_modules returns holds each
\* capacity_type of the rows of the scenario's portfolio once, and no
\* capacity_type that only rows of other portfolios have.
ScenarioPortfolio ==
    scenarios[scenario_id].subscenario["project_portfolio_scenario_id"]

TaggedRows ==
    {k \in DOMAIN period_params_tab : projects_tab[k[1]] = "gen_ret_lin"}

NoProjectTagged == \A prj \in Projects : projects_tab[prj] # "gen_ret_lin"

C23_LoadKeepsTaggedRows ==
    /\ Loaded =>
          /\ GEN_RET_LIN_OPR_PRDS = TaggedRows
          /\ DOMAIN gen_ret_lin_capacity_mw = TaggedRows
          /\ DOMAIN gen_ret_lin_fixed_cost_per_mw_yr = TaggedRows
          /\ \A k \in TaggedRows :
                /\ gen_ret_lin_capacity_mw[k] = PreSpecifiedCapacityMW(k)
                /\ gen_ret_lin_fixed_cost_per_mw_yr[k] = FixedCostPerMWYear(k)
    /\ (Loaded /\ NoProjectTagged) =>
          /\ GEN_RET_LIN_OPR_PRDS = {}
          /\ DOMAIN gen_ret_lin_capacity_mw = {}
          /\ DOMAIN gen_ret_lin_fixed_cost_per_mw_yr = {}
          /\ pc # "failed"
    /\ (Built /\ NoProjectTagged) =>
          /\ DOMAIN var_bounds = {}
          /\ Retire_Forever_Constraint = {}
    /\ (Solved /\ NoProjectTagged) =>
          /\ DOMAIN GenRetLin_Retire_MW = {}
          /\ DOMAIN Capacity_Cost = {}

\* A table with rows, no project tagged gen_ret_lin, solved: nothing in the
\* model.
C23_Witness ==
    /\ Solved
    /\ NoProjectTagged
    /\ Cardinality(DOMAIN period_params_tab) >= 2
    /\ DOMAIN Capacity_Cost = {}

\* C26 as stated: whatever rows are loaded, for every eligible (p, t) that is
\* not exempt the pair (p, previous_period(t)) is eligible too.
C26_PredecessorIsEligible ==
    Loaded => \A k \in NonExempt : PrevKey(k) \in GEN_RET_LIN_OPR_PRDS

\* C27: in a built model, retiring the whole pre-specified capacity at every
\* eligible (p, t) meets every bound and every irreversibility constraint,
\* also where the capacity rises; retiring nothing is admissible exactly when
\* no project's capacity rises from an eligible period to its next one.
FullRetirement == [k \in GEN_RET_LIN_OPR_PRDS |-> gen_ret_lin_capacity_mw[k]]

NoRetirement == [k \in GEN_RET_LIN_OPR_PRDS |-> 0]

CapacityNeverRises ==
    \A g \in EligibleProjects : \A t1, t2 \in EligiblePeriods(g) :
        ConsecutiveEligible(g, t1, t2) =>
            PreSpecifiedCapacityMW(<<g, t2>>) <= PreSpecifiedCapacityMW(<<g, t1>>)

C27_AlwaysSatisfiable ==
    pc = "built" =>
        /\ Admissible(FullRetirement)
        /\ Admissible(NoRetirement) <=> CapacityNeverRises

\* A built model whose capacity rises: full retirement is admissible,
\* retiring nothing is not.
C27_Witness ==
    /\ pc = "built"
    /\ ~CapacityNeverRises
    /\ Retire_Forever_Constraint # {}
    /\ Admissible(FullRetirement)
    /\ ~Admissible(NoRetirement)

\* C28: in every admissible assignment, for every eligible (p, t) that is not
\* exempt, RetireMW(p, t) >= RetireMW(p, previous) + PreSpecifiedCapacityMW(p, t)
\* - PreSpecifiedCapacityMW(p, previous): with the same capacity the retired
\* amount does not fall, with a risen one at least the rise is retired.
C28_RetirementIsForced ==
    Solved =>
        \A k \in NonExempt :
            /\ GenRetLin_Retire_MW[k] >=
                   GenRetLin_Retire_MW[PrevKey(k)]
                       + PreSpecifiedCapacityMW(k) - PreSpecifiedCapacityMW(PrevKey(k))
            /\ PreSpecifiedCapacityMW(k) = PreSpecifiedCapacityMW(PrevKey(k)) =>
                   GenRetLin_Retire_MW[k] >= GenRetLin_Retire_MW[PrevKey(k)]
            /\ PreSpecifiedCapacityMW(k) > PreSpecifiedCapacityMW(PrevKey(k)) =>
                   GenRetLin_Retire_MW[k] >=
                       PreSpecifiedCapacityMW(k) - PreSpecifiedCapacityMW(PrevKey(k))

\* The capacity rises from 100 to 500 and exactly the rise is retired, after
\* nothing was retired before.
C28_Witness ==
    /\ Solved
    /\ \E k \in NonExempt :
          /\ PreSpecifiedCapacityMW(PrevKey(k)) = 100
          /\ PreSpecifiedCapacityMW(k) = 500
          /\ GenRetLin_Retire_MW[PrevKey(k)] = 0
          /\ GenRetLin_Retire_MW[k] = 400

\* C21 as stated: the enumeration returns the subproblem ids of the scenario
\* and, for each, its stage ids; when a stage of the scenario has no
\* timepoint with a period of the scenario it fails with ConfigurationError
\* and returns nothing, so that no such stage is ever among those returned.
Traceable(s, st) ==
    \E r \in inputs_temporal_timepoints :
        /\ r.temporal_scenario_id \in temporal_scenario_ids(scenario_id)
        /\ r.subproblem_id = s
        /\ r.stage_id = st
        /\ r.period \in PERIODS

OrphanStages ==
    {k \in SubproblemIds \X StageIds :
        /\ k[1] \in select_subproblem_id(scenario_id)
        /\ k[2] \in select_stage_id(scenario_id, k[1])
        /\ ~Traceable(k[1], k[2])}

ReturnedStages ==
    {k \in SubproblemIds \X StageIds :
        /\ k[1] \in DOMAIN SUBPROBLEM_STAGE_DICT
        /\ \E i \in DOMAIN SUBPROBLEM_STAGE_DICT[k[1]] :
              SUBPROBLEM_STAGE_DICT[k[1]][i] = k[2]}

EnumeratesWhatTheTablesHold ==
    subproblems_pc = "constructed" =>
        /\ \A o \in SUBPROBLEMS :
              /\ Len(o) = Cardinality(select_subproblem_id(scenario_id))
              /\ {o[i] : i \in DOMAIN o} = select_subproblem_id(scenario_id)
        /\ DOMAIN SUBPROBLEM_STAGE_DICT = select_subproblem_id(scenario_id)
        /\ \A s \in DOMAIN SUBPROBLEM_STAGE_DICT :
              {st \in StageIds : <<s, st>> \in ReturnedStages}
                  = select_stage_id(scenario_id, s)

C21_FailsOnOrphanStage ==
    /\ EnumeratesWhatTheTablesHold
    /\ (subproblems_pc # "SubProblems" /\ OrphanStages # {}) =>
          /\ raised = "ConfigurationError"
          /\ SUBPROBLEMS = {}
    /\ \A k \in ReturnedStages : Traceable(k[1], k[2])

\* C22: after export_module_specific_results the results file is one
\* header row followed by exactly one row per eligible (project, period),
\* carrying the project, the period, the project's technology and load zone
\* and the retired MW; a second export from the same solved model leaves the
\* file as the first one wrote it.
RowOf(k) ==
    <<k[1], str(k[2]), technology[k[1]], load_zone[k[1]],
      str(GenRetLin_Retire_MW[k])>>

HeaderThenOneRowEach(f) ==
    /\ Len(f) = 1 + Cardinality(GEN_RET_LIN_OPR_PRDS)
    /\ f[1] = ResultsHeader
    /\ \A i \in 2..Len(f) : f[i] # ResultsHeader
    /\ \A k \in GEN_RET_LIN_OPR_PRDS :
          Cardinality({i \in 2..Len(f) : f[i] = RowOf(k)}) = 1
    /\ \A i \in 2..Len(f) : \E k \in GEN_RET_LIN_OPR_PRDS : f[i] = RowOf(k)

C22_ExportWritesTheSolution ==
    /\ [](\A f \in results_file : HeaderThenOneRowEach(f))
    /\ [][(export_calls >= 1 /\ export_calls' = export_calls + 1)
              => (results_file' = results_file /\ results_file # {})]_vars

\* Two exports of a model with two eligible pairs.
C22_Witness ==
    /\ export_calls = 2
    /\ Cardinality(GEN_RET_LIN_OPR_PRDS) = 2
    /\ \E f \in results_file : Len(f) = 3 /\ f[2][5] = "100"

\* C24: check_list_items_are_unique raises ValueError for every list in
\* which some item occurs more than once.
SomeItemOccursTwice ==
    \E i, j \in 1..Len(checked_list) :
        i # j /\ checked_list[i] = checked_list[j]

C24_RepeatedItemRaisesValueError ==
    (check_outcome # {} /\ SomeItemOccursTwice) => check_outcome = {"ValueError"}

\* The list [2, 1, 1] has been refused.
C24_Witness ==
    /\ checked_list = <<2, 1, 1>>
    /\ check_outcome = {"ValueError"}

\* C25: starting without existing_generation_period_params.tab, after any
\* sequence of write_module_specific_model_inputs calls the file holds the
\* header row (project, period, existing_capacity_mw, fixed_cost_per_mw_yr)
\* exactly once, as its first line: the first call creates the file with the
\* header, later calls append to it and keep the lines it had.
HeaderOnceAndFirst(f) ==
    /\ Len(f) >= 1
    /\ f[1] = <<"project", "period", "existing_capacity_mw",
                "fixed_cost_per_mw_yr">>
    /\ \A i \in 2..Len(f) : f[i] # f[1]

C25_HeaderOnceAsFirstLine ==
    /\ []((write_calls = 0 => tab_file = {})
          /\ (write_calls >= 1 => tab_file # {})
          /\ \A f \in tab_file : HeaderOnceAndFirst(f))
    /\ [][\A old \in tab_file : \A new \in tab_file' :
              /\ Len(new) >= Len(old)
              /\ SubSeq(new, 1, Len(old)) = old]_vars

\* The second call has appended its rows after those of the first.
C25_Witness ==
    /\ write_calls = 2
    /\ \E f \in tab_file :
          /\ Len(f) = 4
          /\ f[2][1] = "CoalPlant1"
          /\ f[4][1] = "GasPlant2"
          /\ f[4][4] = ""

Next ==
    \/ add_module_specific_components
    \/ OtherModuleContributes
    \/ SkipInactiveModule
    \/ Assemble
    \/ ContributeAfterAssembly
    \/ load_module_specific_data
    \/ CreateInstance
    \/ CreateInstanceFails
    \/ Solve

Spec == Init /\ [][Next]_vars

==========================================================================
